---- MODULE Spec2Model ----
(***************************************************************************)
(* The selection pipeline of the AI news agent: TimeFilter (temporal       *)
(* balancer), Deduplicator and CategoryFilter (category allocator with its *)
(* two overflow detectors).  Each component is modelled from its source    *)
(* and checked under a specification of its own:                           *)
(*   SpecTime   TimeFilter.filter_for_daily_output                         *)
(*   SpecDedup  Deduplicator.deduplicate / reset                           *)
(*   SpecCat    CategoryFilter.filter_for_daily_output                     *)
(* The variables of the components that a specification does not exercise  *)
(* stay at their initial (idle) values.                                    *)
(*                                                                         *)
(* Time is counted in ticks, two per day: tick 2*d is "some moment of day  *)
(* d" and tick 2*d+1 is the last instant of day d (23:59:59.999999).       *)
(* Scores are small naturals standing for the float scores of the code.    *)
(* Ratios are percentages; int(N * ratio) is (N * pct) \div 100.           *)
(***************************************************************************)
EXTENDS Integers, Sequences, FiniteSets, TLC

VARIABLES
    \* ---- TimeFilter ----
    tf_pc,              \* "idle" | "ready" | "done"
    tf_count,           \* self.daily_target_count
    tf_target_pct,      \* self.target_recent_ratio, in percent
    tf_min_pct,         \* self.min_recent_ratio, in percent
    tf_articles,        \* the list handed to filter_for_daily_output
    tf_given,           \* what this list held when it was handed over
    tf_result,          \* the list it returned
    \* ---- Deduplicator and the history store it consults ----
    dd_pc,              \* "idle" | "new" | "called" (deduplicate has run)
    dd_enabled,         \* thresholds.enabled
    dd_method,          \* thresholds.method
    dd_algorithm,       \* thresholds.content_hash_algorithm
    dd_has_storage,     \* whether self.storage is set
    dd_seen_urls,       \* self._seen_urls
    dd_seen_content_hashes, \* self._seen_content_hashes
    dd_history,         \* the articles table of the history store
    dd_input,           \* argument of the latest deduplicate call
    dd_output,          \* what it returned
    dd_raising,         \* positions of dd_input whose storage lookup raised
    dd_clear,           \* no url of dd_input was in _seen_urls when the
                        \* latest call began
    dd_repeat,          \* the latest call repeated the input of the one
                        \* before it (the store is the same: nothing writes it)
    dd_prev_output,
    dd_kept,            \* positions of dd_input that make up dd_output
    dd_failed,          \* positions of dd_input whose check raised
    dd_last,            \* the method called last: "none" | "deduplicate" | "reset"     \* what that earlier call returned (if dd_repeat)
    \* ---- CategoryFilter and its NewModelReleaseFilter ----
    cf_pc,              \* "idle" | "ready"
    cf_dual_channel_mode,   \* self.dual_channel_mode
    cf_input,           \* the batch given to filter_for_daily_output
    cf_calls,           \* calls of filter_for_daily_output made so far
    cf_recorded_models, \* new_model_filter._recorded_models
    cf_recorded_before, \* _recorded_models when the latest call began
    cf_base,            \* result: the selection before the extras
    cf_output,          \* final_result: the list returned
    cf_get_unsent,      \* limits of the storage.get_unsent queries made
    \* ---- the two content hash functions, applied to two texts ----
    ch_pc,              \* "idle" | "ready" | "done"
    ch_algorithm,       \* thresholds.content_hash_algorithm
    ch_first,           \* a (title, description) pair
    ch_second,          \* another one
    ch_digests,         \* the digests computed for them
    \* ---- ThresholdFilter ----
    sf_pc,              \* "idle" | "ready" | "done"
    sf_weights,         \* thresholds.scoring.weights, in tenths
    sf_min_stars,       \* thresholds.github.stars["min_stars"], NoneT: no stars
    sf_input,           \* the argument of filter
    sf_output,          \* the list it returned (<<>> when it raised)
    sf_raised,          \* filter raised
    \* ---- CategoryFilter given a malformed article ----
    ce_pc,              \* "idle" | "ready" | "done"
    ce_dual_channel_mode,
    ce_input,           \* the argument of filter_for_daily_output
    ce_output,          \* the list it returned (<<>> when it raised)
    ce_raised,          \* filter_for_daily_output raised
    \* ---- AINewsAgent.run and the history store ----
    run_pc,             \* the step of run that comes next
    run_news,           \* urls of the articles the last step returned
    run_history,        \* rows of the store: [url, is_sent]
    run_handed,         \* sender.send(report) has been called in this run
    run_count,          \* what add_batch returned in this run
    run_runs,           \* runs started
    run_reports,        \* run -> urls of the articles of its report
    run_completed,      \* the runs that returned without raising
    \* ---- CategoryFilter._sort_articles_by_recency_and_score ----
    so_pc,              \* "idle" | "ready" | "done"
    so_input,           \* the pool handed to the sort
    so_k,               \* how many articles the caller slices off
    so_sorted,          \* the list the sort returned
    \* ---- NewModelReleaseFilter ----
    nm_pc,              \* "idle" | "new" | "called" | "reset" | "done"
    nm_recorded_models, \* self._recorded_models
    nm_input,           \* articles of the last filter_new_model_releases
    nm_max_extra,       \* max_extra of the last call
    nm_output,          \* what the last call returned
    nm_before,          \* self._recorded_models when the last call began
    nm_returned,        \* keys returned since the last reset, last call excluded
    nm_last,            \* "" | "filter" | "reset": the last operation
    \* ---- FunGithubFilter.filter_fun_github_projects ----
    fg_pc,              \* "idle" | "ready" | "done"
    fg_input,           \* the articles handed to the filter
    fg_output,          \* the list it returned
    \* ---- CategoryFilter.classify ----
    cl_pc,              \* "idle" | "ready" | "done"
    cl_input,           \* the articles handed to classify
    cl_buckets,         \* the dictionary it returned: category -> list
    cl_raised,          \* the call raised instead of returning
    \* ---- SQLiteStorage.add called by two runs ----
    st_rows,            \* the articles table: the urls of its rows, in order
    st_initial,         \* the rows before the first add
    st_pc,              \* run -> "idle" | "query" | "insert" | "raised"
    st_todo,            \* run -> the articles add_batch has still to add
    st_log              \* run -> the (url, result) pairs of its adds so far

tfVars == <<tf_pc, tf_count, tf_target_pct, tf_min_pct, tf_articles, tf_given, tf_result>>

ddConfig == <<dd_enabled, dd_method, dd_algorithm, dd_has_storage>>
ddVars == <<dd_pc, ddConfig, dd_seen_urls, dd_seen_content_hashes, dd_history,
            dd_input, dd_output, dd_raising, dd_clear, dd_repeat,
            dd_prev_output, dd_kept, dd_failed, dd_last>>

cfVars == <<cf_pc, cf_dual_channel_mode, cf_input, cf_calls, cf_recorded_models,
            cf_recorded_before, cf_base, cf_output, cf_get_unsent>>

chVars == <<ch_pc, ch_algorithm, ch_first, ch_second, ch_digests>>

sfVars == <<sf_pc, sf_weights, sf_min_stars, sf_input, sf_output, sf_raised>>

ceVars == <<ce_pc, ce_dual_channel_mode, ce_input, ce_output, ce_raised>>

runVars == <<run_pc, run_news, run_history, run_handed, run_count, run_runs, run_reports, run_completed>>

soVars == <<so_pc, so_input, so_k, so_sorted>>

nmVars == <<nm_pc, nm_recorded_models, nm_input, nm_max_extra, nm_output, nm_before, nm_returned, nm_last>>

fgVars == <<fg_pc, fg_input, fg_output>>

clVars == <<cl_pc, cl_input, cl_buckets, cl_raised>>

stVars == <<st_rows, st_initial, st_pc, st_todo, st_log>>

vars == <<tfVars, ddVars, cfVars, chVars, sfVars, ceVars, runVars, soVars, nmVars, fgVars, clVars, stVars>>

(***************************************************************************)
(* Generic helpers                                                         *)
(***************************************************************************)
Min(a, b) == IF a <= b THEN a ELSE b
Max(a, b) == IF a >= b THEN a ELSE b

\* Python's s[a:b] for 0 <= a and any b (b beyond the end is clipped).
PySlice(s, a, b) ==
    LET hi == Min(Max(b, 0), Len(s))
    IN  IF a >= hi THEN <<>> ELSE SubSeq(s, a + 1, hi)

\* Python's None for a missing published_at.
NoneT == 0 - 1

\* published_at.timestamp() if published_at else 0
Timestamp(p) == IF p = NoneT THEN 0 ELSE p

Range(s) == {s[i] : i \in 1..Len(s)}

(***************************************************************************)
(* TimeFilter (src/src/filters/time_filter.py)                             *)
(***************************************************************************)
\* The day on which the filter runs, and datetime.now() in ticks.
NowDay == 10
NowTick == 2 * NowDay

\* self.recent_threshold_days (365 by default; a small configured value here)
recent_threshold_days == 2

\* get_cutoff_date: now - (recent_threshold_days + 1) days, at 23:59:59.999999
GetCutoffDate == 2 * (NowDay - (recent_threshold_days + 1)) + 1

\* get_today: the last instant of today
GetToday == 2 * NowDay + 1

GROUP_RECENT == "recent"
GROUP_HISTORICAL == "historical"

\* The group classify() gives one article.
TimeGroup(article) ==
    IF article.published_at = NoneT THEN GROUP_HISTORICAL
    ELSE IF GetCutoffDate <= article.published_at /\ article.published_at <= GetToday
         THEN GROUP_RECENT
         ELSE GROUP_HISTORICAL

\* article.copy() with article_copy['_time_group'] = time_group
TagTimeGroup(article) ==
    [id |-> article.id, published_at |-> article.published_at,
     score |-> article.score, time_group |-> TimeGroup(article)]

\* A classify() that tags the articles of the list themselves
ArticlesAfterClassifyInPlace(articles) ==
    [i \in 1..Len(articles) |-> TagTimeGroup(articles[i])]

\* classify(): what the list it was given holds afterwards.  The loop reads
\* each article and writes to article_copy only.
ArticlesAfterClassify(articles) == articles

\* classify(): the tagged copies of one group, in input order.
TimeClassify(articles, group) ==
    LET tagged == [i \in 1..Len(articles) |-> TagTimeGroup(articles[i])]
    IN  SelectSeq(tagged, LAMBDA a : a.time_group = group)

\* sort_key of _sort_articles: (score, timestamp); a before b under reverse=True
TimeKeyGreater(a, b) ==
    \/ a.score > b.score
    \/ /\ a.score = b.score
       /\ Timestamp(a.published_at) > Timestamp(b.published_at)

RECURSIVE TimeInsert(_, _)
TimeInsert(s, x) ==
    IF s = <<>> THEN <<x>>
    ELSE IF TimeKeyGreater(x, Head(s)) THEN <<x>> \o s
    ELSE <<Head(s)>> \o TimeInsert(Tail(s), x)

RECURSIVE TimeSortFrom(_, _)
TimeSortFrom(s, acc) ==
    IF s = <<>> THEN acc ELSE TimeSortFrom(Tail(s), TimeInsert(acc, Head(s)))

\* _sort_articles: sorted(articles, key=(score, timestamp), reverse=True), stable
SortArticles(articles) == TimeSortFrom(articles, <<>>)

\* int(self.daily_target_count * ratio)
TargetRecent(count, pct) == (count * pct) \div 100

\* Strategy 1 (lines 169-182): the target ratio.
Tier1Result(recent_sorted, historical_sorted, count, target_recent_primary) ==
    LET selected_recent == PySlice(recent_sorted, 0, target_recent_primary)
        needed_historical ==
            Min(count - target_recent_primary, Len(historical_sorted))
        selected_historical == PySlice(historical_sorted, 0, needed_historical)
        result == selected_recent \o selected_historical
    IN  IF Len(result) < count
        THEN result \o PySlice(recent_sorted, target_recent_primary,
                               target_recent_primary + (count - Len(result)))
        ELSE result

\* Strategy 2 (lines 184-197): the minimum ratio.
Tier2Result(recent_sorted, historical_sorted, count, target_recent_fallback) ==
    LET selected_recent == PySlice(recent_sorted, 0, target_recent_fallback)
        needed_historical ==
            Min(count - target_recent_fallback, Len(historical_sorted))
        selected_historical == PySlice(historical_sorted, 0, needed_historical)
        result == selected_recent \o selected_historical
    IN  IF Len(result) < count
        THEN result \o PySlice(historical_sorted, Len(selected_historical),
                               Len(selected_historical) + (count - Len(result)))
        ELSE result

\* Strategy 3 with a slice that loses the last recent article.
Tier3ResultDropsRecent(recent_sorted, historical_sorted, count) ==
    LET selected_recent == PySlice(recent_sorted, 0, Len(recent_sorted) - 1)
        needed_historical ==
            Min(count - Len(selected_recent), Len(historical_sorted))
    IN  selected_recent \o PySlice(historical_sorted, 0, needed_historical)

\* Strategy 3 (lines 199-206): all recent articles, the rest historical.
Tier3Result(recent_sorted, historical_sorted, count) ==
    LET selected_recent == recent_sorted
        needed_historical ==
            Min(count - Len(selected_recent), Len(historical_sorted))
        selected_historical == PySlice(historical_sorted, 0, needed_historical)
    IN  selected_recent \o selected_historical

\* TimeFilter.filter_for_daily_output
TimeFilterForDailyOutput(articles, count, target_pct, min_pct) ==
    LET recent_sorted == SortArticles(TimeClassify(articles, GROUP_RECENT))
        historical_sorted == SortArticles(TimeClassify(articles, GROUP_HISTORICAL))
        target_recent_primary == TargetRecent(count, target_pct)
        target_recent_fallback == TargetRecent(count, min_pct)
        result ==
            IF Len(recent_sorted) >= target_recent_primary
            THEN Tier1Result(recent_sorted, historical_sorted, count,
                             target_recent_primary)
            ELSE IF Len(recent_sorted) >= target_recent_fallback
            THEN Tier2Result(recent_sorted, historical_sorted, count,
                             target_recent_fallback)
            ELSE Tier3Result(recent_sorted, historical_sorted, count)
    IN  PySlice(result, 0, count)

(***************************************************************************)
(* Inputs of the TimeFilter specification                                  *)
(***************************************************************************)
MaxTarget == 10         \* largest daily_target_count tried
MaxRecent == 10         \* most recent articles in a batch
MaxHistorical == 20     \* most historical articles in a batch

TargetPcts == {80, 85}
MinPcts == {50, 70, 75}
Layouts == {"recent_first", "mixed"}

\* published_at of the k-th recent article: the cutoff instant itself, a moment
\* of today, the end of today, a moment of yesterday, in turn.
RecentTime(k) ==
    CASE k % 4 = 0 -> GetCutoffDate
      [] k % 4 = 1 -> NowTick
      [] k % 4 = 2 -> GetToday
      [] OTHER     -> NowTick - 2

\* published_at of the k-th historical article: missing, just before the
\* cutoff, tomorrow (beyond today's end), long ago, in turn.
HistoricalTime(k) ==
    CASE k % 4 = 0 -> NoneT
      [] k % 4 = 1 -> GetCutoffDate - 1
      [] k % 4 = 2 -> GetToday + 1
      [] OTHER     -> 2

\* A batch of r recent and h historical articles.  "recent_first" puts the
\* recent ones first; "mixed" alternates while both kinds last.
TimeBatch(r, h, layout) ==
    LET n == r + h
        both == 2 * Min(r, h)
        IsRecentAt(i) ==
            IF layout = "recent_first" THEN i <= r
            ELSE IF i <= both THEN i % 2 = 1 ELSE r > h
        RecentIndex(i) ==
            IF layout = "recent_first" THEN i
            ELSE IF i <= both THEN (i + 1) \div 2 ELSE i - Min(r, h)
        HistIndex(i) ==
            IF layout = "recent_first" THEN i - r
            ELSE IF i <= both THEN i \div 2 ELSE i - Min(r, h)
    IN  [i \in 1..n |->
            [id |-> i,
             published_at |-> IF IsRecentAt(i) THEN RecentTime(RecentIndex(i))
                              ELSE HistoricalTime(HistIndex(i)),
             score |-> (i * 3) % 5]]

TimeIdle ==
    /\ tf_pc = "idle"
    /\ tf_count = 0
    /\ tf_target_pct = 0
    /\ tf_min_pct = 0
    /\ tf_articles = <<>>
    /\ tf_given = <<>>
    /\ tf_result = <<>>

TimeInit ==
    /\ tf_pc = "ready"
    /\ tf_count \in 0..MaxTarget
    /\ tf_target_pct \in TargetPcts
    /\ tf_min_pct \in MinPcts
    /\ \E r \in 0..MaxRecent, h \in 0..MaxHistorical, layout \in Layouts :
           tf_articles = TimeBatch(r, h, layout)
    /\ tf_given = tf_articles
    /\ tf_result = <<>>

\* One call of TimeFilter.filter_for_daily_output.
TimeFilterCall ==
    /\ tf_pc = "ready"
    /\ tf_result' = TimeFilterForDailyOutput(tf_articles, tf_count,
                                             tf_target_pct, tf_min_pct)
    /\ tf_articles' = ArticlesAfterClassify(tf_articles)
    /\ tf_pc' = "done"
    /\ UNCHANGED <<tf_count, tf_target_pct, tf_min_pct, tf_given>>


(***************************************************************************)
(* Content hash (src/src/filters/deduplicator.py, src/src/storage.py)      *)
(* A text is a sequence of characters.  A digest is modelled by the pair   *)
(* <<algorithm, hashed text>>: equal digests iff equal algorithm and text. *)
(***************************************************************************)
\* str.lower() on one character
LowerChar(c) ==
    CASE c = "A" -> "a"
      [] c = "B" -> "b"
      [] c = "C" -> "c"
      [] OTHER   -> c

Lower(s) == [i \in 1..Len(s) |-> LowerChar(s[i])]

IsSpace(c) == c \in {" ", "\t", "\n"}

RECURSIVE LStrip(_)
LStrip(s) ==
    IF s = <<>> THEN <<>>
    ELSE IF IsSpace(Head(s)) THEN LStrip(Tail(s)) ELSE s

RECURSIVE RStrip(_)
RStrip(s) ==
    IF s = <<>> THEN <<>>
    ELSE IF IsSpace(s[Len(s)]) THEN RStrip(SubSeq(s, 1, Len(s) - 1)) ELSE s

\* str.strip()
Strip(s) == RStrip(LStrip(s))

\* " ".join(s.split()): the words of s, one space between them
RECURSIVE JoinSplit(_)
JoinSplit(s) ==
    LET t == LStrip(s)
    IN  IF t = <<>> THEN <<>>
        ELSE IF Len(t) >= 2 /\ IsSpace(t[2]) /\ LStrip(Tail(t)) # <<>>
             THEN <<t[1], " ">> \o JoinSplit(Tail(t))
             ELSE <<t[1]>> \o JoinSplit(Tail(t))

\* f"{title}|{description}".lower().strip(), then " ".join(content.split())
NormalizeContent(title, description) ==
    JoinSplit(Strip(Lower(title \o <<"|">> \o description)))

\* Deduplicator._compute_content_hash
ComputeContentHash(algorithm, title, description) ==
    <<IF algorithm = "md5" THEN "md5" ELSE "sha256",
      NormalizeContent(title, description)>>

\* SQLiteStorage.compute_content_hash (always sha256)
StorageContentHash(title, description) ==
    <<"sha256", NormalizeContent(title, description)>>

(***************************************************************************)
(* The articles of the Deduplicator specification, and their digests       *)
(***************************************************************************)
\* "A b", "a  b" (the same text up to case and spacing) and "c"
TitleAb == <<"A", " ", "b">>
TitleAbVariant == <<"a", " ", " ", "b">>
TitleC == <<"c">>

\* u1 twice under titles that differ in case and spacing, u2 with the content
\* of a u1 article, and an article without url.
DedupArticles ==
    {[url |-> "u1", title |-> TitleAb, description |-> <<>>],
     [url |-> "u1", title |-> TitleAbVariant, description |-> <<>>],
     [url |-> "u2", title |-> TitleAb, description |-> <<>>],
     [url |-> "", title |-> TitleC, description |-> <<"B">>]}

\* The row the history store may hold: the url of one article and, up to
\* case and spacing, the content of three.
HistoryPool ==
    {[url |-> "u2", title |-> TitleAbVariant, description |-> <<>>]}

\* _compute_content_hash(title, description) of every article, per configured
\* algorithm, and compute_content_hash of the store (computed once)
ArticleHash ==
    [algorithm \in {"sha256", "md5"}, a \in DedupArticles \cup HistoryPool |->
        ComputeContentHash(algorithm, a.title, a.description)]
StoredHash ==
    [a \in DedupArticles \cup HistoryPool |->
        StorageContentHash(a.title, a.description)]

(***************************************************************************)
(* History store lookups used by the Deduplicator (src/src/storage.py)     *)
(***************************************************************************)
\* SQLiteStorage.exists: a row with this url_hash
StorageExists(history, url) == \E rec \in history : rec.url = url

\* SQLiteStorage.exists_by_content(title, description) for an article: a row
\* with the content_hash of the article
StorageExistsByContent(history, article) ==
    \E rec \in history : StoredHash[rec] = StoredHash[article]

(***************************************************************************)
(* Deduplicator (src/src/filters/deduplicator.py)                          *)
(* A check yields "dup", "unique" or "raise" (the storage lookup threw).   *)
(* The similarity strategy is not modelled: method ranges over url_hash,   *)
(* content_hash and both.                                                  *)
(***************************************************************************)
\* _is_duplicate_by_url without the look into the in-run cache
IsDuplicateByUrlStoreOnly(article, seen_urls, history, has_storage, raises) ==
    IF article.url = "" THEN "unique"
    ELSE IF has_storage
         THEN IF raises THEN "raise"
              ELSE IF StorageExists(history, article.url) THEN "dup" ELSE "unique"
    ELSE "unique"

\* _is_duplicate_by_url
IsDuplicateByUrl(article, seen_urls, history, has_storage, raises) ==
    IF article.url = "" THEN "unique"
    ELSE IF article.url \in seen_urls THEN "dup"
    ELSE IF has_storage
         THEN IF raises THEN "raise"
              ELSE IF StorageExists(history, article.url) THEN "dup" ELSE "unique"
    ELSE "unique"

\* _is_duplicate_by_content_hash
IsDuplicateByContentHash(article, seen_hashes, history, cfg, raises) ==
    IF ArticleHash[cfg.algorithm, article] \in seen_hashes
    THEN "dup"
    ELSE IF cfg.has_storage
         THEN IF raises THEN "raise"
              ELSE IF StorageExistsByContent(history, article)
                   THEN "dup" ELSE "unique"
    ELSE "unique"

\* _is_duplicate: the enabled strategies in order, stopping at the first
\* that reports a duplicate or raises
IsDuplicate(article, seen_urls, seen_hashes, history, cfg, raises) ==
    LET by_url ==
            IF cfg.method \in {"url_hash", "both"}
            THEN IsDuplicateByUrl(article, seen_urls, history,
                                  cfg.has_storage, raises)
            ELSE "unique"
        by_content ==
            IF cfg.method \in {"content_hash", "both"}
            THEN IsDuplicateByContentHash(article, seen_hashes, history, cfg,
                                          raises)
            ELSE "unique"
    IN  IF by_url # "unique" THEN by_url ELSE by_content

\* _mark_as_seen: the new _seen_urls
MarkSeenUrls(seen_urls, article) ==
    IF article.url # "" THEN seen_urls \cup {article.url} ELSE seen_urls

\* _mark_as_seen: the new _seen_content_hashes
MarkSeenHashes(seen_hashes, article, algorithm) ==
    seen_hashes \cup {ArticleHash[algorithm, article]}

\* The body of the loop of deduplicate with the except branch dropping the
\* article
DedupStepDropsOnError(articles, i, st, history, cfg, raises) ==
    LET article == articles[i]
        verdict == IsDuplicate(article, st.seen_urls, st.seen_hashes,
                               history, cfg, raises)
    IN  CASE verdict = "dup" -> st
          [] verdict = "unique" ->
                [st EXCEPT !.seen_urls = MarkSeenUrls(st.seen_urls, article),
                           !.seen_hashes = MarkSeenHashes(st.seen_hashes, article,
                                                          cfg.algorithm),
                           !.unique = Append(st.unique, article),
                           !.kept = Append(st.kept, i)]
          [] OTHER -> [st EXCEPT !.failed = st.failed \cup {i}]

\* The body of the loop of deduplicate (lines 58-73) for articles[i]; st
\* holds the two seen-sets and unique_articles, and with them the positions
\* of the articles appended and of the articles whose check raised.
DedupStep(articles, i, st, history, cfg, raises) ==
    LET article == articles[i]
        verdict == IsDuplicate(article, st.seen_urls, st.seen_hashes,
                               history, cfg, raises)
    IN  CASE verdict = "dup" -> st
          [] verdict = "unique" ->
                [st EXCEPT !.seen_urls = MarkSeenUrls(st.seen_urls, article),
                           !.seen_hashes = MarkSeenHashes(st.seen_hashes, article,
                                                          cfg.algorithm),
                           !.unique = Append(st.unique, article),
                           !.kept = Append(st.kept, i)]
          [] OTHER ->   \* except Exception: keep the article
                [st EXCEPT !.unique = Append(st.unique, article),
                           !.kept = Append(st.kept, i),
                           !.failed = st.failed \cup {i}]

\* The loop of deduplicate (lines 57-73) from position i on
RECURSIVE DedupLoop(_, _, _, _, _, _)
DedupLoop(articles, i, st, history, cfg, raising) ==
    IF i > Len(articles) THEN st
    ELSE DedupLoop(articles, i + 1,
                   DedupStep(articles, i, st, history, cfg, i \in raising),
                   history, cfg, raising)

\* Deduplicator.deduplicate: the state after the call (st.unique is returned)
Deduplicate(articles, seen_urls, seen_hashes, history, cfg, raising) ==
    IF ~cfg.enabled
    THEN [seen_urls |-> seen_urls, seen_hashes |-> seen_hashes,
          unique |-> articles, kept |-> [i \in 1..Len(articles) |-> i],
          failed |-> {}]
    ELSE DedupLoop(articles, 1,
                   [seen_urls |-> seen_urls, seen_hashes |-> seen_hashes,
                    unique |-> <<>>, kept |-> <<>>, failed |-> {}],
                   history, cfg, raising)

(***************************************************************************)
(* Inputs of the Deduplicator specification                                *)
(***************************************************************************)
MaxDedupBatch == 2      \* longest batch handed to deduplicate

DedupBatches == UNION {[1..n -> DedupArticles] : n \in 0..MaxDedupBatch}

\* (enabled, method, content_hash_algorithm, storage given)
DedupConfigs ==
    {<<TRUE, "url_hash", "sha256", TRUE>>,
     <<TRUE, "content_hash", "sha256", TRUE>>,
     <<TRUE, "both", "md5", TRUE>>,
     <<TRUE, "url_hash", "sha256", FALSE>>,
     <<FALSE, "url_hash", "sha256", TRUE>>}

DedupCfg ==
    [enabled |-> dd_enabled, method |-> dd_method, algorithm |-> dd_algorithm,
     has_storage |-> dd_has_storage]

DedupIdle ==
    /\ dd_pc = "idle"
    /\ dd_enabled = FALSE
    /\ dd_method = "none"
    /\ dd_algorithm = "sha256"
    /\ dd_has_storage = FALSE
    /\ dd_seen_urls = {}
    /\ dd_seen_content_hashes = {}
    /\ dd_history = {}
    /\ dd_input = <<>>
    /\ dd_output = <<>>
    /\ dd_raising = {}
    /\ dd_clear = TRUE
    /\ dd_repeat = FALSE
    /\ dd_prev_output = <<>>
    /\ dd_kept = <<>>
    /\ dd_failed = {}
    /\ dd_last = "none"

\* Deduplicator.__init__ with a store that may already hold rows
DedupInit ==
    /\ dd_pc = "new"
    /\ \E c \in DedupConfigs :
           /\ dd_enabled = c[1]
           /\ dd_method = c[2]
           /\ dd_algorithm = c[3]
           /\ dd_has_storage = c[4]
    /\ dd_seen_urls = {}
    /\ dd_seen_content_hashes = {}
    /\ dd_history \in SUBSET HistoryPool
    /\ dd_input = <<>>
    /\ dd_output = <<>>
    /\ dd_raising = {}
    /\ dd_clear = TRUE
    /\ dd_repeat = FALSE
    /\ dd_prev_output = <<>>
    /\ dd_kept = <<>>
    /\ dd_failed = {}
    /\ dd_last = "none"

\* One call of Deduplicator.deduplicate(batch); the storage lookups made for
\* the positions in raising throw.
DedupCall(batch, raising) ==
    /\ dd_pc \in {"new", "called"}
    /\ LET after == Deduplicate(batch, dd_seen_urls, dd_seen_content_hashes,
                                dd_history, DedupCfg, raising)
       IN  /\ dd_seen_urls' = after.seen_urls
           /\ dd_seen_content_hashes' = after.seen_hashes
           /\ dd_output' = after.unique
           /\ dd_kept' = after.kept
           /\ dd_failed' = after.failed
    /\ dd_last' = "deduplicate"
    /\ dd_pc' = "called"
    /\ dd_input' = batch
    /\ dd_raising' = raising
    /\ dd_clear' = (\A i \in 1..Len(batch) : batch[i].url \notin dd_seen_urls)
    /\ dd_repeat' = (dd_pc = "called" /\ batch = dd_input)
    /\ dd_prev_output' = IF dd_repeat' THEN dd_output ELSE <<>>
    /\ UNCHANGED <<ddConfig, dd_history>>

\* Deduplicator.reset
DedupReset ==
    /\ dd_pc \in {"new", "called"}
    /\ dd_seen_urls' = {}
    /\ dd_seen_content_hashes' = {}
    /\ dd_last' = "reset"
    /\ UNCHANGED <<dd_pc, ddConfig, dd_history, dd_input, dd_output,
                   dd_raising, dd_clear, dd_repeat, dd_prev_output, dd_kept,
                   dd_failed>>

(***************************************************************************)
(* CategoryFilter (src/src/filters/category_filter.py) with its two        *)
(* overflow detectors, NewModelReleaseFilter (new_model_filter.py) and     *)
(* FunGithubFilter (fun_github_filter.py).                                 *)
(* An article is a record.  What the code finds by searching the text of   *)
(* title and description is a field of the record:                         *)
(*   id               which dict of the batch it is (copies keep it)       *)
(*   url              <<kind, i>>, or NoUrl when missing or empty          *)
(*   category, source_category   "" when absent                            *)
(*   source           the feed name                                        *)
(*   published_at     an hour, or NoneT                                    *)
(*   published_format "known": a datetime or a string in one of the formats *)
(*                    _extract_published_at tries; "other": another string *)
(*   score            a small natural                                      *)
(*   academic_kw      the text holds one of the academic keywords          *)
(*   release_kw       the text holds a configured new-model keyword        *)
(*   model_name       the first MODEL_PATTERNS match, "" when none         *)
(*   github_url       the url contains github.com                          *)
(*   fun_matches      number of productivity and fun keywords in the text  *)
(*   fun_special      "", or the special fun word of the text: "bongo",    *)
(*                    "bongo cat", "emoji"                                 *)
(*   boring_kw        the text holds one of the boring keywords            *)
(*   stars            the stars field                                      *)
(*   is_extra, extra_type   the tags of the overflow detectors             *)
(*   malformed        "": well formed; "source": source is None;           *)
(*                    "score": score is None                               *)
(* The detectors' other annotations (is_new_model_release, model_info,     *)
(* special_category) are left out.                                         *)
(***************************************************************************)
\* a.get('url', '') of an article without url
NoUrl == <<>>

CATEGORY_ACADEMIC == "academic"
CATEGORY_MEDIA == "media"
CATEGORY_LAB_BLOG == "lab_blog"
CATEGORY_TOOLS == "tools"
CATEGORY_COMMUNITY == "community"
CATEGORY_NEWSLETTER == "newsletter"

CATEGORIES ==
    {CATEGORY_ACADEMIC, CATEGORY_MEDIA, CATEGORY_LAB_BLOG, CATEGORY_TOOLS,
     CATEGORY_COMMUNITY, CATEGORY_NEWSLETTER}

\* Defaults set in CategoryFilter.__init__
max_target_count == 10
academic_max_count == 3
new_model_extra_count == 3
new_model_hours == 48
tools_channel_count == 5
academic_media_channel_count == 5

\* Numbers written into _filter_single_channel and filter_fun_github_projects
ACADEMIC_FIXED == 2
TOOLS_FIXED == 3
LAB_BLOG_FIXED == 3
TARGET_MIN_TOTAL == 13
FILL_CEILING == 16
FUN_TOP == 2

\* SOURCE_CATEGORY_MAPPING, for the feed names used here ("" : no key matches)
SourceCategoryMapping(source) ==
    CASE source = "arxiv" -> CATEGORY_ACADEMIC
      [] source = "jiqizhixin" -> CATEGORY_MEDIA
      [] source = "openai_blog" -> CATEGORY_LAB_BLOG
      [] source = "product_hunt_ai" -> CATEGORY_TOOLS
      [] source = "github_trending_ai" -> CATEGORY_TOOLS
      [] source = "hacker_news" -> CATEGORY_COMMUNITY
      [] source = "the_batch" -> CATEGORY_NEWSLETTER
      [] OTHER -> ""

\* CategoryFilter._extract_category
ExtractCategory(article) ==
    IF article.category \in CATEGORIES THEN article.category
    ELSE IF article.source_category \in CATEGORIES THEN article.source_category
    ELSE IF SourceCategoryMapping(article.source_id) # ""
         THEN SourceCategoryMapping(article.source_id)
    ELSE IF SourceCategoryMapping(article.source) # ""
         THEN SourceCategoryMapping(article.source)
    ELSE CATEGORY_MEDIA

\* CategoryFilter.classify: the bucket of one category
Classify(articles, category) ==
    SelectSeq(articles, LAMBDA a : ExtractCategory(a) = category)

\* key(a) < key(b) for the sort keys -score ("score") and
\* (-timestamp, score) ("recency")
CatKeyLess(by, a, b) ==
    IF by = "score" THEN a.score > b.score
    ELSE \/ Timestamp(a.published_at) > Timestamp(b.published_at)
         \/ /\ Timestamp(a.published_at) = Timestamp(b.published_at)
            /\ a.score < b.score

\* sorted() is stable: x goes behind every element whose key is not larger
RECURSIVE CatInsert(_, _, _)
CatInsert(by, s, x) ==
    IF s = <<>> THEN <<x>>
    ELSE IF CatKeyLess(by, x, Head(s)) THEN <<x>> \o s
    ELSE <<Head(s)>> \o CatInsert(by, Tail(s), x)

RECURSIVE CatSortFrom(_, _, _)
CatSortFrom(by, s, acc) ==
    IF s = <<>> THEN acc
    ELSE CatSortFrom(by, Tail(s), CatInsert(by, acc, Head(s)))

\* CategoryFilter._sort_articles_by_score
SortArticlesByScore(articles) == CatSortFrom("score", articles, <<>>)

\* CategoryFilter._sort_articles_by_recency_and_score
SortArticlesByRecencyAndScore(articles) == CatSortFrom("recency", articles, <<>>)

UrlsOf(s) == {s[i].url : i \in 1..Len(s)}

\* [a for a in articles if a.get('url', '') not in selected_urls]
NotSelected(articles, selected_urls) ==
    SelectSeq(articles, LAMBDA a : a.url \notin selected_urls)

\* result.extend(picked); selected_urls.update(urls of picked)
Extend(sel, picked) ==
    [result |-> sel.result \o picked,
     selected_urls |-> sel.selected_urls \cup UrlsOf(picked)]

(***************************************************************************)
(* NewModelReleaseFilter                                                   *)
(***************************************************************************)
CatNowHour == 100       \* datetime.now(), in hours

\* get_model_info: the first AI_LABS name contained in the source
CompanyOf(source) == IF source = "openai_blog" THEN "openai" ELSE "None"

\* NewModelReleaseFilter.is_new_model_release
IsNewModelRelease(article) ==
    /\ article.release_kw
    /\ (article.model_name # "" \/ CompanyOf(article.source) # "None")

\* model_key = f"{company}_{model_name}", kept as a pair
ModelKey(article) ==
    <<CompanyOf(article.source),
      IF article.model_name = "" THEN "None" ELSE article.model_name>>

\* The loop of filter_new_model_releases from position i on; st holds
\* new_model_articles (out) and _recorded_models (recorded).
\* _extract_published_at: a string in none of the formats gives None
ExtractPublishedAt(article) ==
    IF article.published_at = NoneT THEN NoneT
    ELSE IF article.published_format = "known" THEN article.published_at
    ELSE NoneT

RECURSIVE NewModelLoop(_, _, _, _, _)
NewModelLoop(articles, i, st, max_extra, hours) ==
    IF i > Len(articles) THEN st
    ELSE
        LET article == articles[i]
            cutoff_time == CatNowHour - hours
            skip == \/ ~IsNewModelRelease(article)
                    \/ /\ ExtractPublishedAt(article) # NoneT
                       /\ ExtractPublishedAt(article) < cutoff_time
                    \/ ModelKey(article) \in st.recorded
            next == IF skip THEN st
                    ELSE [out |-> Append(st.out, article),
                          recorded |-> st.recorded \cup {ModelKey(article)}]
        IN  IF ~skip /\ Len(next.out) >= max_extra
            THEN next
            ELSE NewModelLoop(articles, i + 1, next, max_extra, hours)

\* a filter that starts every call from an empty record
FilterNewModelReleasesUnrecorded(articles, recorded, max_extra, hours) ==
    NewModelLoop(articles, 1, [out |-> <<>>, recorded |-> {}], max_extra, hours)

\* NewModelReleaseFilter.filter_new_model_releases
FilterNewModelReleases(articles, recorded, max_extra, hours) ==
    NewModelLoop(articles, 1, [out |-> <<>>, recorded |-> recorded],
                 max_extra, hours)

(***************************************************************************)
(* FunGithubFilter; its score is counted in tenths                         *)
(***************************************************************************)
\* FunGithubFilter._is_github_project
IsGithubProject(article) ==
    article.source = "github_trending_ai" \/ article.github_url

\* FunGithubFilter._is_fun_or_productive: has_productivity or has_fun or
\* has_special_fun, unless a boring keyword is there
IsFunOrProductive(article) ==
    /\ ~article.boring_kw
    /\ article.fun_matches > 0 \/ article.fun_special # ""

\* FunGithubFilter._calculate_fun_score
CalculateFunScore(article) ==
    LET special == CASE article.fun_special = "bongo cat" -> 5
                     [] article.fun_special = "emoji" -> 2
                     [] OTHER -> 0
        bonus == IF article.stars > 1000 THEN 3
                 ELSE IF article.stars > 100 THEN 2
                 ELSE IF article.stars > 10 THEN 1 ELSE 0
    IN  Min(5 + article.fun_matches + special + bonus, 10)

\* article_copy['score'] = self._calculate_fun_score(article)
FunCopy(article) == [article EXCEPT !.score = CalculateFunScore(article)]

\* A filter that returns the first two qualifying articles, unsorted
FilterFunGithubProjectsUnsorted(articles) ==
    LET qualifying ==
            SelectSeq(articles,
                      LAMBDA a : IsGithubProject(a) /\ IsFunOrProductive(a))
    IN  PySlice([i \in 1..Len(qualifying) |-> FunCopy(qualifying[i])], 0, FUN_TOP)

\* FunGithubFilter.filter_fun_github_projects
FilterFunGithubProjects(articles) ==
    LET qualifying ==
            SelectSeq(articles,
                      LAMBDA a : IsGithubProject(a) /\ IsFunOrProductive(a))
        fun_projects == [i \in 1..Len(qualifying) |-> FunCopy(qualifying[i])]
    IN  PySlice(SortArticlesByScore(fun_projects), 0, FUN_TOP)

(***************************************************************************)
(* CategoryFilter: the base selection.  A selection in progress is the     *)
(* pair of result and selected_urls.                                       *)
(***************************************************************************)
\* Step 1: 2 academic articles; without any, the first 2 articles of the
\* batch that hold an academic keyword, copied with category academic
SelectAcademic(articles) ==
    LET academic_articles == Classify(articles, CATEGORY_ACADEMIC)
        with_keyword == SelectSeq(articles, LAMBDA a : a.academic_kw)
        found == PySlice(with_keyword, 0, ACADEMIC_FIXED)
        potential_academic ==
            [i \in 1..Len(found) |->
                [found[i] EXCEPT !.category = CATEGORY_ACADEMIC]]
    IN  IF academic_articles # <<>>
        THEN Extend([result |-> <<>>, selected_urls |-> {}],
                    PySlice(SortArticlesByRecencyAndScore(academic_articles),
                            0, ACADEMIC_FIXED))
        ELSE [result |-> potential_academic, selected_urls |-> UrlsOf(found)]

\* Step 2: 3 tools articles by score
SelectTools(articles, sel) ==
    Extend(sel, PySlice(SortArticlesByScore(Classify(articles, CATEGORY_TOOLS)),
                        0, TOOLS_FIXED))

\* Step 3: 3 lab blog articles by recency and score
SelectLabBlog(articles, sel) ==
    Extend(sel, PySlice(SortArticlesByRecencyAndScore(
                            Classify(articles, CATEGORY_LAB_BLOG)),
                        0, LAB_BLOG_FIXED))

\* Step 4: up to 13 in total, media first, then whatever is left
FillToMinimum(articles, sel) ==
    LET media_articles == Classify(articles, CATEGORY_MEDIA)
        needed == Max(0, TARGET_MIN_TOTAL - Len(sel.result))
        remaining_media == NotSelected(media_articles, sel.selected_urls)
        selected_media ==
            IF media_articles # <<>> /\ needed > 0
            THEN PySlice(SortArticlesByRecencyAndScore(remaining_media), 0,
                         Min(needed, Len(remaining_media)))
            ELSE <<>>
        sel1 == Extend(sel, selected_media)
        needed1 == needed - Len(selected_media)
        other_media ==
            Classify(NotSelected(articles, sel1.selected_urls), CATEGORY_MEDIA)
        media_to_add ==
            IF needed1 > 0
            THEN PySlice(SortArticlesByRecencyAndScore(other_media), 0,
                         Min(needed1, Len(other_media)))
            ELSE <<>>
        sel2 == Extend(sel1, media_to_add)
        needed2 == needed1 - Len(media_to_add)
        all_remaining == NotSelected(articles, sel2.selected_urls)
        additional_articles ==
            IF needed2 > 0
            THEN PySlice(SortArticlesByRecencyAndScore(all_remaining), 0, needed2)
            ELSE <<>>
    IN  Extend(sel2, additional_articles)

\* Step 5: below 16, fill up to 16, media first, then the other categories
FillToCeiling(articles, sel) ==
    LET additional_needed == FILL_CEILING - Len(sel.result)
        all_remaining == NotSelected(articles, sel.selected_urls)
        remaining_media == Classify(all_remaining, CATEGORY_MEDIA)
        other_remaining ==
            SelectSeq(all_remaining,
                      LAMBDA a : ExtractCategory(a) # CATEGORY_MEDIA)
        media_to_add ==
            PySlice(SortArticlesByRecencyAndScore(remaining_media), 0,
                    additional_needed)
        still_needed == additional_needed - Len(media_to_add)
        other_to_add ==
            IF still_needed > 0
            THEN PySlice(SortArticlesByRecencyAndScore(other_remaining), 0,
                         still_needed)
            ELSE <<>>
    IN  IF Len(sel.result) < FILL_CEILING
        THEN Extend(sel, media_to_add \o other_to_add)
        ELSE sel

\* Steps 1 to 5 of _filter_single_channel: result
SingleChannelBase(articles) ==
    FillToCeiling(articles,
        FillToMinimum(articles,
            SelectLabBlog(articles,
                SelectTools(articles, SelectAcademic(articles))))).result

\* The two channels of _filter_dual_channels: result
\* Dual-channel selection whose tools channel takes every tools article
DualChannelBaseUncapped(articles) ==
    LET sel1 ==
            Extend([result |-> <<>>, selected_urls |-> {}],
                   SortArticlesByScore(Classify(articles, CATEGORY_TOOLS)))
        remaining_academic ==
            NotSelected(Classify(articles, CATEGORY_ACADEMIC), sel1.selected_urls)
        sel2 ==
            Extend(sel1,
                   PySlice(SortArticlesByRecencyAndScore(remaining_academic), 0,
                           academic_media_channel_count \div 2))
        remaining_media ==
            NotSelected(Classify(articles, CATEGORY_MEDIA), sel2.selected_urls)
    IN  Extend(sel2,
               PySlice(SortArticlesByRecencyAndScore(remaining_media), 0,
                       academic_media_channel_count)).result

DualChannelBase(articles) ==
    LET sel1 ==
            Extend([result |-> <<>>, selected_urls |-> {}],
                   PySlice(SortArticlesByScore(Classify(articles, CATEGORY_TOOLS)),
                           0, tools_channel_count))
        remaining_academic ==
            NotSelected(Classify(articles, CATEGORY_ACADEMIC), sel1.selected_urls)
        sel2 ==
            Extend(sel1,
                   PySlice(SortArticlesByRecencyAndScore(remaining_academic), 0,
                           academic_media_channel_count \div 2))
        remaining_media ==
            NotSelected(Classify(articles, CATEGORY_MEDIA), sel2.selected_urls)
        academic_selected ==
            Min(Len(remaining_academic), academic_media_channel_count \div 2)
        media_needed ==
            Min(academic_media_channel_count - academic_selected,
                Len(remaining_media))
    IN  Extend(sel2,
               PySlice(SortArticlesByRecencyAndScore(remaining_media), 0,
                       media_needed)).result

\* Tagging that sets extra_type and leaves is_extra as it is
TagExtraTypeOnly(articles, extra_type) ==
    [i \in 1..Len(articles) |-> [articles[i] EXCEPT !.extra_type = extra_type]]

\* article['is_extra'] = True; article['extra_type'] = extra_type
TagExtra(articles, extra_type) ==
    [i \in 1..Len(articles) |->
        [articles[i] EXCEPT !.is_extra = TRUE, !.extra_type = extra_type]]

\* The detector steps fed with the whole batch instead of the articles that
\* the list built so far left unclaimed
AppendExtrasFromBatch(articles, result, recorded) ==
    LET found ==
            FilterNewModelReleases(articles, recorded, new_model_extra_count,
                                   new_model_hours)
        final_result == result \o TagExtra(found.out, "new_model_release")
        fun_github_articles == FilterFunGithubProjects(articles)
    IN  [base |-> result,
         final |-> final_result \o TagExtra(fun_github_articles,
                                           "fun_github_project"),
         recorded |-> found.recorded]

\* The two detector steps that close both channel modes: the model-release
\* extras, then the fun GitHub projects, each taken from the articles whose
\* url is not in the list built so far.  Yields the base result, the list
\* returned and the new _recorded_models.
AppendExtras(articles, result, recorded) ==
    LET found ==
            FilterNewModelReleases(NotSelected(articles, UrlsOf(result)),
                                   recorded, new_model_extra_count,
                                   new_model_hours)
        final_result == result \o TagExtra(found.out, "new_model_release")
        fun_github_articles ==
            FilterFunGithubProjects(NotSelected(articles, UrlsOf(final_result)))
    IN  [base |-> result,
         final |-> final_result \o TagExtra(fun_github_articles,
                                           "fun_github_project"),
         recorded |-> found.recorded]

\* CategoryFilter.filter_for_daily_output
CategoryFilterForDailyOutput(articles, dual_channel_mode, recorded) ==
    AppendExtras(articles,
                 IF dual_channel_mode THEN DualChannelBase(articles)
                 ELSE SingleChannelBase(articles),
                 recorded)

(***************************************************************************)
(* Inputs of the CategoryFilter specification                              *)
(***************************************************************************)
MaxAcademic == 4        \* most academic articles in a batch
MaxTools == 4           \* most tools articles
MaxLab == 3             \* most lab blog articles
MaxMedia == 6           \* most media articles
MaxRelease == 3         \* most community articles announcing a model
MaxCatCalls == 2        \* calls of filter_for_daily_output on one instance

\* "dup_url": the second article of each kind repeats the url of the first;
\* "no_url": the first two articles of each kind have no url;
\* "same_key": all announcements name the same model;
\* "stale": the announcements are older than the 48 hour window.
CatVariants == {"plain", "dup_url", "no_url", "same_key", "stale"}

CatBlank ==
    [id |-> <<"", 0>>, url |-> NoUrl, category |-> "", source_category |-> "",
     source |-> "", source_id |-> "",
     published_at |-> NoneT, published_format |-> "known", score |-> 0,
     academic_kw |-> FALSE,
     release_kw |-> FALSE, model_name |-> "", github_url |-> FALSE,
     fun_matches |-> 0, fun_special |-> "", boring_kw |-> FALSE, stars |-> 0,
     is_extra |-> FALSE, extra_type |-> "", malformed |-> ""]

CatUrl(kind, i, variant) ==
    IF variant = "no_url" /\ i <= 2 THEN NoUrl
    ELSE IF variant = "dup_url" /\ i = 2 THEN <<kind, 1>>
    ELSE <<kind, i>>

\* arXiv papers, two per hour; every second one carries category itself, the
\* third has its GitHub repository as url
AcademicArticle(i, variant) ==
    [CatBlank EXCEPT !.id = <<"academic", i>>,
                     !.url = CatUrl("academic", i, variant),
                     !.category = IF i % 2 = 0 THEN CATEGORY_ACADEMIC ELSE "",
                     !.source = "arxiv",
                     !.published_at = CatNowHour - ((i + 1) \div 2),
                     !.score = (i * 3) % 5,
                     !.academic_kw = TRUE,
                     !.github_url = (i = 3),
                     !.fun_matches = IF i = 3 THEN 2 ELSE 0]

\* GitHub trending projects (odd i) and Product Hunt launches (even i); the
\* fourth is described as a research tool
ToolsArticle(i, variant) ==
    [CatBlank EXCEPT !.id = <<"tools", i>>,
                     !.url = CatUrl("tools", i, variant),
                     !.source_category = IF i % 2 = 0 THEN CATEGORY_TOOLS ELSE "",
                     !.source = IF i % 2 = 1 THEN "github_trending_ai"
                                ELSE "product_hunt_ai",
                     !.published_at = CatNowHour - i,
                     !.score = i,
                     !.github_url = (i = 2),
                     !.fun_matches = IF i % 2 = 1 THEN i ELSE 1,
                     !.boring_kw = (i = 3),
                     !.stars = i * 40,
                     !.academic_kw = (i = 4)]

\* OpenAI blog posts; from the third on they announce something without
\* naming a model
LabArticle(i, variant) ==
    [CatBlank EXCEPT !.id = <<"lab_blog", i>>,
                     !.url = CatUrl("lab_blog", i, variant),
                     !.source = "openai_blog",
                     !.published_at = CatNowHour - i,
                     !.score = (i * 2) % 3,
                     !.release_kw = (i >= 3)]

\* Media articles: category given, given but not one of the six, or absent;
\* the fifth has no published_at
MediaArticle(i, variant) ==
    [CatBlank EXCEPT !.id = <<"media", i>>,
                     !.url = CatUrl("media", i, variant),
                     !.category = IF i % 3 = 0 THEN "news"
                                  ELSE IF i % 2 = 0 THEN CATEGORY_MEDIA ELSE "",
                     !.source = IF i % 2 = 0 THEN "jiqizhixin" ELSE "unknown",
                     !.published_at = IF i = 5 THEN NoneT
                                      ELSE CatNowHour - (i \div 2),
                     !.score = (i * 3) % 5,
                     !.academic_kw = (i % 3 = 1)]

ReleaseModelName(i) ==
    CASE i = 1 -> "GPT-5"
      [] i = 2 -> "Claude Opus"
      [] i = 3 -> "Gemini Pro"
      [] OTHER -> "Qwen-3"

\* Hacker News posts announcing a model, older than every other article
ReleaseArticle(i, variant) ==
    [CatBlank EXCEPT !.id = <<"release", i>>,
                     !.url = CatUrl("release", i, variant),
                     !.category = CATEGORY_COMMUNITY,
                     !.source = "hacker_news",
                     !.published_at =
                         IF variant = "stale"
                         THEN CatNowHour - new_model_hours - i
                         ELSE CatNowHour - 40 - i,
                     !.score = 4,
                     !.release_kw = TRUE,
                     !.model_name = IF variant = "same_key" THEN "GPT-5"
                                    ELSE ReleaseModelName(i)]

CatBatch(a, t, l, m, r, variant) ==
    [i \in 1..a |-> AcademicArticle(i, variant)]
    \o [i \in 1..t |-> ToolsArticle(i, variant)]
    \o [i \in 1..l |-> LabArticle(i, variant)]
    \o [i \in 1..m |-> MediaArticle(i, variant)]
    \o [i \in 1..r |-> ReleaseArticle(i, variant)]

CatIdle ==
    /\ cf_pc = "idle"
    /\ cf_dual_channel_mode = FALSE
    /\ cf_input = <<>>
    /\ cf_calls = 0
    /\ cf_recorded_models = {}
    /\ cf_recorded_before = {}
    /\ cf_base = <<>>
    /\ cf_output = <<>>
    /\ cf_get_unsent = <<>>

\* CategoryFilter.__init__ (with a storage) and the batch it will be given
CatInit ==
    /\ cf_pc = "ready"
    /\ cf_dual_channel_mode \in BOOLEAN
    /\ \E a \in 0..MaxAcademic, t \in 0..MaxTools, l \in 0..MaxLab,
          m \in 0..MaxMedia, r \in 0..MaxRelease, variant \in CatVariants :
           cf_input = CatBatch(a, t, l, m, r, variant)
    /\ cf_calls = 0
    /\ cf_recorded_models = {}
    /\ cf_recorded_before = {}
    /\ cf_base = <<>>
    /\ cf_output = <<>>
    /\ cf_get_unsent = <<>>

MaxDualAcademic == 3    \* academic articles of a dual-channel batch
MaxDualTools == 6       \* tools articles of a dual-channel batch
MaxDualMedia == 6       \* media articles of a dual-channel batch
MaxDualOther == 1       \* lab-blog articles and announcements of such a batch

\* CategoryFilter.__init__ with dual_channel_mode set, and a batch that can
\* overfill either channel
DualInit ==
    /\ cf_pc = "ready"
    /\ cf_dual_channel_mode = TRUE
    /\ \E a \in 0..MaxDualAcademic, t \in 0..MaxDualTools, l \in 0..MaxDualOther,
          m \in 0..MaxDualMedia, r \in 0..MaxDualOther, variant \in CatVariants :
           cf_input = CatBatch(a, t, l, m, r, variant)
    /\ cf_calls = 0
    /\ cf_recorded_models = {}
    /\ cf_recorded_before = {}
    /\ cf_base = <<>>
    /\ cf_output = <<>>
    /\ cf_get_unsent = <<>>

\* One call of CategoryFilter.filter_for_daily_output(cf_input).  The code
\* holds no call of storage.get_unsent, so cf_get_unsent stays as it is.
CatFilterCall ==
    /\ cf_pc = "ready"
    /\ cf_calls < MaxCatCalls
    /\ \E out \in {CategoryFilterForDailyOutput(cf_input, cf_dual_channel_mode,
                                                  cf_recorded_models)} :
           /\ cf_base' = out.base
           /\ cf_output' = out.final
           /\ cf_recorded_models' = out.recorded
    /\ cf_recorded_before' = cf_recorded_models
    /\ cf_calls' = cf_calls + 1
    /\ UNCHANGED <<cf_pc, cf_dual_channel_mode, cf_input, cf_get_unsent>>

(***************************************************************************)
(* The content hash functions applied to two (title, description) pairs    *)
(***************************************************************************)
MaxTextLen == 3         \* longest title tried

HashAlphabet == {"A", "a", " "}

\* every title of at most MaxTextLen characters
HashTitles == UNION {[1..n -> HashAlphabet] : n \in 0..MaxTextLen}

HashDescriptions == {<<>>, <<"b">>, <<" ", "B">>}

HashIdle ==
    /\ ch_pc = "idle"
    /\ ch_algorithm = "sha256"
    /\ ch_first = <<>>
    /\ ch_second = <<>>
    /\ ch_digests = <<>>

HashInit ==
    /\ ch_pc = "ready"
    /\ ch_algorithm \in {"sha256", "md5"}
    /\ ch_first \in [title : HashTitles, description : HashDescriptions]
    /\ ch_second \in [title : HashTitles, description : HashDescriptions]
    /\ ch_digests = <<>>

\* Deduplicator._compute_content_hash on both pairs and
\* SQLiteStorage.compute_content_hash on both pairs
HashCall ==
    /\ ch_pc = "ready"
    /\ ch_digests' =
           [first |-> ComputeContentHash(ch_algorithm, ch_first.title,
                                         ch_first.description),
            second |-> ComputeContentHash(ch_algorithm, ch_second.title,
                                          ch_second.description),
            stored_first |-> StorageContentHash(ch_first.title,
                                                ch_first.description),
            stored_second |-> StorageContentHash(ch_second.title,
                                                 ch_second.description)]
    /\ ch_pc' = "done"
    /\ UNCHANGED <<ch_algorithm, ch_first, ch_second>>

(***************************************************************************)
(* ThresholdFilter (src/src/filters/threshold_filter.py)                   *)
(* Component scores are counted in 1/10000, weights in tenths, the score   *)
(* of an article in thousandths (round(score, 3)).  An article is a        *)
(* record:                                                                 *)
(*   source           "arXiv", "GitHub", "HuggingFace" or another name     *)
(*   matched          len(matched_categories), 0 when missing or empty     *)
(*   kw_matches       configured keywords found in title and description   *)
(*   hours_ago        age of published_at, NoneT when missing or not       *)
(*                    parsable                                             *)
(*   stars, today_stars, likes, downloads   a count, or NoneT for None     *)
(*   title_len, desc_len   lengths (0 for None)                            *)
(*   title_bad        title is not a string (len(title) raises)            *)
(*   score            thousandths; NoneT for None.  Before the filter it   *)
(*                    is what the collector put there                      *)
(*   scored           the filter has assigned score                        *)
(***************************************************************************)
min_score == 600
min_title_length == 10
max_title_length == 200
min_description_length == 50
primary_window_hours == 24
min_likes == 50
min_downloads == 1000

\* weights.get(name, default)
WeightOf(weights, name) ==
    IF name \in DOMAIN weights THEN weights[name]
    ELSE IF name \in {"source_priority", "keyword_match"} THEN 3 ELSE 2

\* _score_source_priority
ScoreSourcePriority(article) ==
    CASE article.source = "arXiv" -> 10000
      [] article.source = "HuggingFace" -> 8000
      [] article.source = "GitHub" -> 7000
      [] OTHER -> 5000

\* _score_keyword_match
ScoreKeywordMatch(article) ==
    IF article.matched > 0 THEN Min(6000 + article.matched * 1000, 10000)
    ELSE Min(article.kw_matches * 1000, 10000)

\* _score_recency
ScoreRecency(article) ==
    IF article.hours_ago = NoneT THEN 5000
    ELSE IF article.hours_ago <= 24 THEN 10000
    ELSE IF article.hours_ago <= 48 THEN 7000
    ELSE IF article.hours_ago <= 72 THEN 4000
    ELSE 2000

\* _score_engagement raises when one of the four counts is None
EngagementRaises(article) ==
    NoneT \in {article.stars, article.today_stars, article.likes,
               article.downloads}

\* _score_engagement
ScoreEngagement(article) ==
    Min(article.today_stars * 100 + article.stars * 10 + article.likes * 100
            + article.downloads, 10000)

\* _calculate_score: the weighted sum, rounded to thousandths
CalculateScore(article, weights) ==
    (WeightOf(weights, "source_priority") * ScoreSourcePriority(article)
     + WeightOf(weights, "keyword_match") * ScoreKeywordMatch(article)
     + WeightOf(weights, "recency") * ScoreRecency(article)
     + WeightOf(weights, "engagement") * ScoreEngagement(article)
     + 50) \div 100

\* _meets_content_thresholds
MeetsContentThresholds(article) ==
    /\ article.title_len >= min_title_length
    /\ article.title_len <= max_title_length
    /\ article.desc_len >= min_description_length

\* _within_time_window
WithinTimeWindow(article) ==
    article.hours_ago = NoneT \/ article.hours_ago <= primary_window_hours

\* _meets_github_thresholds (min_stars_daily is not configured: 0)
MeetsGithubThresholds(article, min_stars) ==
    min_stars = NoneT \/ article.stars >= min_stars

\* _meets_huggingface_thresholds
MeetsHuggingfaceThresholds(article) ==
    article.likes >= min_likes /\ article.downloads >= min_downloads

\* _meets_thresholds of a scored article: "yes", "no", or "raise" when
\* len(title) is reached and title is no string
MeetsThresholds(article, min_stars) ==
    IF article.score < min_score THEN "no"
    ELSE IF article.title_bad THEN "raise"
    ELSE IF ~MeetsContentThresholds(article) THEN "no"
    ELSE IF ~WithinTimeWindow(article) THEN "no"
    ELSE IF article.source = "GitHub"
         THEN (IF MeetsGithubThresholds(article, min_stars) THEN "yes" ELSE "no")
    ELSE IF article.source = "HuggingFace"
         THEN (IF MeetsHuggingfaceThresholds(article) THEN "yes" ELSE "no")
    ELSE "yes"

\* The body of the loop of filter for one article: the article as the loop
\* leaves it, whether it is appended to filtered, whether the except branch
\* was taken
ProcessArticle(article, weights, min_stars) ==
    IF EngagementRaises(article)
    THEN [article |-> article, kept |-> TRUE, failed |-> TRUE]
    ELSE
        LET scored == [article EXCEPT !.score = CalculateScore(article, weights),
                                      !.scored = TRUE]
            verdict == MeetsThresholds(scored, min_stars)
        IN  [article |-> scored, kept |-> verdict # "no",
             failed |-> verdict = "raise"]

\* filtered after the loop
RECURSIVE FilterLoop(_, _, _, _, _)
FilterLoop(articles, i, filtered, weights, min_stars) ==
    IF i > Len(articles) THEN filtered
    ELSE
        LET done == ProcessArticle(articles[i], weights, min_stars)
        IN  FilterLoop(articles, i + 1,
                       IF done.kept THEN Append(filtered, done.article)
                       ELSE filtered,
                       weights, min_stars)

\* key(a) > key(b) for the key x.get("score", 0)
ScoreKeyGreater(a, b) == a.score > b.score

\* filtered.sort(key=..., reverse=True): stable, highest score first
RECURSIVE ScoreInsert(_, _)
ScoreInsert(s, x) ==
    IF s = <<>> THEN <<x>>
    ELSE IF ScoreKeyGreater(x, Head(s)) THEN <<x>> \o s
    ELSE <<Head(s)>> \o ScoreInsert(Tail(s), x)

RECURSIVE ScoreSortFrom(_, _)
ScoreSortFrom(s, acc) ==
    IF s = <<>> THEN acc ELSE ScoreSortFrom(Tail(s), ScoreInsert(acc, Head(s)))

\* The sort compares keys as soon as there are two of them, and comparing
\* None with a number (or with None) raises TypeError
SortRaises(filtered) ==
    Len(filtered) >= 2 /\ \E i \in 1..Len(filtered) : filtered[i].score = NoneT

\* ThresholdFilter.filter
ThresholdFilterFilter(articles, weights, min_stars) ==
    LET filtered == FilterLoop(articles, 1, <<>>, weights, min_stars)
    IN  IF SortRaises(filtered)
        THEN [raised |-> TRUE, result |-> <<>>]
        ELSE [raised |-> FALSE, result |-> ScoreSortFrom(filtered, <<>>)]

(***************************************************************************)
(* Inputs of the ThresholdFilter specification                             *)
(***************************************************************************)
MaxScoreBatch == 3      \* longest batch handed to filter

\* no weight configured (the defaults 0.3, 0.3, 0.2, 0.2), four weights of
\* 0.5, and everything on the source
WeightMaps ==
    {<<>>,
     [n \in {"source_priority", "keyword_match", "recency", "engagement"} |-> 5],
     [n \in {"source_priority"} |-> 10]}

ScoreBlank ==
    [source |-> "blog", matched |-> 0, kw_matches |-> 0, hours_ago |-> NoneT,
     stars |-> 0, today_stars |-> 0, likes |-> 0, downloads |-> 0,
     title_len |-> 40, desc_len |-> 100, title_bad |-> FALSE, score |-> 0,
     scored |-> FALSE]

\* a fresh arXiv paper; a popular GitHub project with the collector's heat
\* score; a GitHub project whose stars is None; an old blog post; an arXiv
\* paper whose title is a number; a HuggingFace model whose likes and score
\* are None; a HuggingFace model
ScoreArticles ==
    {[ScoreBlank EXCEPT !.source = "arXiv", !.matched = 2, !.hours_ago = 5],
     [ScoreBlank EXCEPT !.source = "GitHub", !.matched = 1, !.hours_ago = 5,
                        !.stars = 5000, !.today_stars = 200,
                        !.score = 7000000],
     [ScoreBlank EXCEPT !.source = "GitHub", !.matched = 1, !.hours_ago = 5,
                        !.stars = NoneT, !.score = 1234000],
     [ScoreBlank EXCEPT !.kw_matches = 2, !.hours_ago = 100],
     [ScoreBlank EXCEPT !.source = "arXiv", !.matched = 3, !.hours_ago = 30,
                        !.title_bad = TRUE],
     [ScoreBlank EXCEPT !.source = "HuggingFace", !.likes = NoneT,
                        !.score = NoneT],
     [ScoreBlank EXCEPT !.source = "HuggingFace", !.matched = 2,
                        !.hours_ago = 20, !.likes = 60, !.downloads = 2000]}

ScoreBatches == UNION {[1..n -> ScoreArticles] : n \in 0..MaxScoreBatch}

ScoreIdle ==
    /\ sf_pc = "idle"
    /\ sf_weights = <<>>
    /\ sf_min_stars = NoneT
    /\ sf_input = <<>>
    /\ sf_output = <<>>
    /\ sf_raised = FALSE

ScoreInit ==
    /\ sf_pc = "ready"
    /\ sf_weights \in WeightMaps
    /\ sf_min_stars \in {NoneT, 100}
    /\ sf_input \in ScoreBatches
    /\ sf_output = <<>>
    /\ sf_raised = FALSE

\* One call of ThresholdFilter.filter(sf_input)
ScoreFilterCall ==
    /\ sf_pc = "ready"
    /\ LET out == ThresholdFilterFilter(sf_input, sf_weights, sf_min_stars)
       IN  /\ sf_output' = out.result
           /\ sf_raised' = out.raised
    /\ sf_pc' = "done"
    /\ UNCHANGED <<sf_weights, sf_min_stars, sf_input>>

(***************************************************************************)
(* CategoryFilter given a malformed article.  No method of CategoryFilter, *)
(* NewModelReleaseFilter or FunGithubFilter catches an exception, so       *)
(* whatever raises inside ends filter_for_daily_output.                    *)
(***************************************************************************)
\* _extract_category raises: neither category nor source_category names one
\* of the six categories, and article.get('source', '') is None, which has
\* no lower()
ExtractCategoryRaises(article) ==
    /\ article.category \notin CATEGORIES
    /\ article.source_category \notin CATEGORIES
    /\ article.malformed = "source"

\* classify raises
ClassifyRaises(articles) ==
    \E i \in 1..Len(articles) : ExtractCategoryRaises(articles[i])

\* _sort_articles_by_score raises: the key of an article is -score, and
\* None cannot be negated
SortArticlesByScoreRaises(articles) ==
    \E i \in 1..Len(articles) : articles[i].malformed = "score"

\* The detectors raise on an unclaimed article whose source is None:
\* FunGithubFilter._is_github_project calls source.lower() for every article
\* it is given
DetectorsRaise(articles, result) ==
    LET unsampled == NotSelected(articles, UrlsOf(result))
    IN  \E i \in 1..Len(unsampled) : unsampled[i].malformed = "source"

\* filter_for_daily_output: raised, or the list returned.  Both channel modes
\* classify first and sort the tools pool by score before any other sort.
CategoryFilterOutcome(articles, dual_channel_mode) ==
    IF \/ ClassifyRaises(articles)
       \/ SortArticlesByScoreRaises(Classify(articles, CATEGORY_TOOLS))
    THEN [raised |-> TRUE, result |-> <<>>]
    ELSE
        LET out == CategoryFilterForDailyOutput(articles, dual_channel_mode, {})
        IN  IF DetectorsRaise(articles, out.base)
            THEN [raised |-> TRUE, result |-> <<>>]
            ELSE [raised |-> FALSE, result |-> out.final]

MaxErrAcademic == 2     \* most academic articles next to the malformed one
MaxErrTools == 2        \* most tools articles
MaxErrMedia == 3        \* most media articles

\* A blog post whose source is None, the same post with category lab_blog
\* given, and a Product Hunt launch whose score is None
MalformedKinds == {"source_none", "source_none_lab_blog", "score_none"}

MalformedArticle(kind) ==
    CASE kind = "source_none" ->
            [CatBlank EXCEPT !.id = <<"malformed", 1>>,
                             !.url = <<"malformed", 1>>,
                             !.published_at = CatNowHour - 1, !.score = 2,
                             !.malformed = "source"]
      [] kind = "source_none_lab_blog" ->
            [CatBlank EXCEPT !.id = <<"malformed", 1>>,
                             !.url = <<"malformed", 1>>,
                             !.category = CATEGORY_LAB_BLOG,
                             !.published_at = CatNowHour - 1, !.score = 2,
                             !.malformed = "source"]
      [] OTHER ->
            [CatBlank EXCEPT !.id = <<"malformed", 1>>,
                             !.url = <<"malformed", 1>>,
                             !.source_category = CATEGORY_TOOLS,
                             !.source = "product_hunt_ai",
                             !.published_at = CatNowHour - 1,
                             !.score = NoneT, !.malformed = "score"]

\* s with x put in front of position p
InsertAt(s, p, x) == SubSeq(s, 1, p - 1) \o <<x>> \o SubSeq(s, p, Len(s))

CatErrIdle ==
    /\ ce_pc = "idle"
    /\ ce_dual_channel_mode = FALSE
    /\ ce_input = <<>>
    /\ ce_output = <<>>
    /\ ce_raised = FALSE

\* A batch of well-formed articles with one malformed article somewhere
CatErrInit ==
    /\ ce_pc = "ready"
    /\ ce_dual_channel_mode \in BOOLEAN
    /\ \E a \in 0..MaxErrAcademic, t \in 0..MaxErrTools, m \in 0..MaxErrMedia,
          kind \in MalformedKinds :
           \E p \in 1..(a + t + m + 1) :
               ce_input = InsertAt(CatBatch(a, t, 0, m, 0, "plain"), p,
                                   MalformedArticle(kind))
    /\ ce_output = <<>>
    /\ ce_raised = FALSE

\* One call of CategoryFilter.filter_for_daily_output(ce_input)
CatErrCall ==
    /\ ce_pc = "ready"
    /\ LET out == CategoryFilterOutcome(ce_input, ce_dual_channel_mode)
       IN  /\ ce_output' = out.result
           /\ ce_raised' = out.raised
    /\ ce_pc' = "done"
    /\ UNCHANGED <<ce_dual_channel_mode, ce_input>>

(***************************************************************************)
(* AINewsAgent.run (src/main.py) over the history store                    *)
(* (src/src/storage.py).  An article is its url, "" for an article without *)
(* one; what each filter selects is modelled in the sections above, here a *)
(* filter returns some of the articles it was given.  A row of the store   *)
(* is [url, is_sent].                                                      *)
(***************************************************************************)
MaxRuns == 2            \* scheduled runs
RunUrls == {"", "u1", "u2"}

\* rows a store may hold before the first run
RunHistoryPool ==
    {[url |-> "u1", is_sent |-> TRUE], [url |-> "u2", is_sent |-> FALSE]}

\* SQLiteStorage.exists
RunExists(history, url) == \E rec \in history : rec.url = url

\* SQLiteStorage.add_batch: a row with is_sent = False for every article
\* whose url has no row yet
AddBatch(history, news) ==
    history \cup {[url |-> u, is_sent |-> FALSE] :
                     u \in {v \in news : ~RunExists(history, v)}}

RunIdle ==
    /\ run_pc = "idle"
    /\ run_news = {}
    /\ run_history = {}
    /\ run_handed = FALSE
    /\ run_count = 0
    /\ run_runs = 0
    /\ run_reports = [r \in 1..MaxRuns |-> {}]
    /\ run_completed = {}

\* AINewsAgent.__init__
RunInit ==
    /\ run_pc = "collect"
    /\ run_news = {}
    /\ run_history \in SUBSET RunHistoryPool
    /\ run_handed = FALSE
    /\ run_count = 0
    /\ run_runs = 1
    /\ run_reports = [r \in 1..MaxRuns |-> {}]
    /\ run_completed = {}

\* Step 1, _collect_news
RunCollect ==
    /\ run_pc = "collect"
    /\ run_news' \in SUBSET RunUrls
    /\ run_pc' = "filter"
    /\ UNCHANGED <<run_history, run_handed, run_count, run_runs, run_reports, run_completed>>

\* Step 2, _filter_news: KeywordFilter.filter and ThresholdFilter.filter
RunFilter ==
    /\ run_pc = "filter"
    /\ run_news' \in SUBSET run_news
    /\ run_pc' = "deduplicate"
    /\ UNCHANGED <<run_history, run_handed, run_count, run_runs, run_reports, run_completed>>

\* Deduplicator._is_duplicate_by_url against the store: an article without
\* url is no duplicate
RunIsDuplicate(history, url) == url # "" /\ RunExists(history, url)

\* Deduplicator.deduplicate that marks the rows it found as sent
RunDeduplicateMarking ==
    /\ run_pc = "deduplicate"
    /\ run_news' = {u \in run_news : ~RunIsDuplicate(run_history, u)}
    /\ run_history' =
           {IF rec.url \in run_news THEN [rec EXCEPT !.is_sent = TRUE] ELSE rec :
               rec \in run_history}
    /\ run_pc' = "time_filter"
    /\ UNCHANGED <<run_handed, run_count, run_runs, run_reports, run_completed>>

\* Step 3, _deduplicate_news: Deduplicator.deduplicate asks the store
\* whether a row exists (exists, exists_by_content)
RunDeduplicate ==
    /\ run_pc = "deduplicate"
    /\ run_news' = {u \in run_news : ~RunIsDuplicate(run_history, u)}
    /\ run_pc' = "time_filter"
    /\ UNCHANGED <<run_history, run_handed, run_count, run_runs, run_reports, run_completed>>

\* Step 4, _apply_time_filter: TimeFilter.filter_for_daily_output
RunTimeFilter ==
    /\ run_pc = "time_filter"
    /\ run_news' \in SUBSET run_news
    /\ run_pc' = "summarize"
    /\ UNCHANGED <<run_history, run_handed, run_count, run_runs, run_reports, run_completed>>

\* Steps 5 and 6, _summarize_news and _format_report
RunSummarizeAndFormat ==
    /\ run_pc = "summarize"
    /\ run_pc' = "send"
    /\ UNCHANGED <<run_news, run_history, run_handed, run_count, run_runs, run_reports, run_completed>>

\* Step 7, _send_report: the report goes to the sender; a result without
\* success is logged and run goes on
RunSendReport ==
    /\ run_pc = "send"
    /\ run_handed' = TRUE
    /\ run_reports' = [run_reports EXCEPT ![run_runs] = run_news]
    /\ run_pc' = "save"
    /\ UNCHANGED <<run_news, run_history, run_count, run_runs, run_completed>>

\* Step 8, _save_history
RunSaveHistory ==
    /\ run_pc = "save"
    /\ run_history' = AddBatch(run_history, run_news)
    /\ run_count' = Cardinality(run_history') - Cardinality(run_history)
    /\ run_completed' = run_completed \cup {run_runs}
    /\ run_pc' = "done"
    /\ UNCHANGED <<run_news, run_handed, run_runs, run_reports>>

\* A step from the filters to the sender raises: run logs and re-raises
RunRaise ==
    /\ run_pc \in {"filter", "deduplicate", "time_filter", "summarize", "send"}
    /\ run_pc' = "failed"
    /\ UNCHANGED <<run_news, run_history, run_handed, run_count, run_runs, run_reports, run_completed>>

\* CategoryFilter.filter_for_daily_output called between two runs by a
\* script that built the filter over the store (it uses its storage only as
\* a flag, line 410)
RunCategoryFilter ==
    /\ run_pc \in {"done", "failed"}
    /\ run_news' \in SUBSET run_news
    /\ run_news' # run_news
    /\ UNCHANGED <<run_pc, run_history, run_handed, run_count, run_runs, run_reports, run_completed>>

\* The scheduler starts the next run with a new AINewsAgent
RunAgain ==
    /\ run_pc \in {"done", "failed"}
    /\ run_runs < MaxRuns
    /\ run_pc' = "collect"
    /\ run_news' = {}
    /\ run_handed' = FALSE
    /\ run_count' = 0
    /\ run_runs' = run_runs + 1
    /\ UNCHANGED <<run_history, run_reports, run_completed>>

(***************************************************************************)
(* CategoryFilter._sort_articles_by_recency_and_score applied to a pool    *)
(* that the caller slices to its first k articles                          *)
(***************************************************************************)
MaxPool == 3            \* largest pool sorted

\* articles of two hours and without published_at, with three scores each
PoolArticles ==
    {[CatBlank EXCEPT !.id = <<"pool", p, sc>>, !.url = <<"pool", p, sc>>,
                      !.published_at = p, !.score = sc] :
        p \in {NoneT, CatNowHour - 2, CatNowHour - 1}, sc \in 1..3}

SortPools == UNION {[1..n -> PoolArticles] : n \in 0..MaxPool}

SortIdle ==
    /\ so_pc = "idle"
    /\ so_input = <<>>
    /\ so_k = 0
    /\ so_sorted = <<>>

SortInit ==
    /\ so_pc = "ready"
    /\ so_input \in SortPools
    /\ so_k \in 0..MaxPool
    /\ so_sorted = <<>>

\* sorted_pool = self._sort_articles_by_recency_and_score(pool)
SortCall ==
    /\ so_pc = "ready"
    /\ so_sorted' = SortArticlesByRecencyAndScore(so_input)
    /\ so_pc' = "done"
    /\ UNCHANGED <<so_input, so_k>>

(***************************************************************************)
(* One NewModelReleaseFilter instance: filter_new_model_releases called    *)
(* twice, reset_daily_record possibly in between                           *)
(***************************************************************************)
MaxNmBatch == 2         \* longest list handed to filter_new_model_releases
MaxNmExtra == 2         \* largest max_extra handed to it

\* announcements: two of one model, one of a lab without a model name and
\* without published_at, one stale, one stale whose published_at is a string
\* in none of the formats
NmArticle(i) ==
    [CatBlank EXCEPT !.id = <<"announce", i>>,
                     !.url = <<"announce", i>>,
                     !.source = IF i = 3 THEN "openai_blog" ELSE "hacker_news",
                     !.release_kw = TRUE,
                     !.model_name = CASE i \in {1, 2} -> "GPT-5"
                                      [] i = 3 -> ""
                                      [] i = 4 -> "Claude Opus"
                                      [] OTHER -> "Gemini Pro",
                     !.published_at = CASE i = 1 -> CatNowHour - 10
                                        [] i = 2 -> CatNowHour - 20
                                        [] i = 3 -> NoneT
                                        [] OTHER -> CatNowHour - new_model_hours - 12,
                     !.published_format = IF i = 5 THEN "other" ELSE "known"]

NmArticles == {NmArticle(i) : i \in 1..5}

NmBatches == UNION {[1..n -> NmArticles] : n \in 0..MaxNmBatch}

NmKeys(articles) == {ModelKey(articles[i]) : i \in DOMAIN articles}

NmIdle ==
    /\ nm_pc = "idle"
    /\ nm_recorded_models = {}
    /\ nm_input = <<>>
    /\ nm_max_extra = 0
    /\ nm_output = <<>>
    /\ nm_before = {}
    /\ nm_returned = {}
    /\ nm_last = ""

\* NewModelReleaseFilter.__init__
NmInit ==
    /\ nm_pc = "new"
    /\ nm_recorded_models = {}
    /\ nm_input = <<>>
    /\ nm_max_extra = 0
    /\ nm_output = <<>>
    /\ nm_before = {}
    /\ nm_returned = {}
    /\ nm_last = ""

\* filter_new_model_releases(articles, max_extra, hours)
NmFilterCall(articles, max_extra) ==
    /\ nm_pc \in {"new", "called", "reset"}
    /\ LET r == FilterNewModelReleases(articles, nm_recorded_models,
                                       max_extra, new_model_hours)
       IN  /\ nm_output' = r.out
           /\ nm_recorded_models' = r.recorded
    /\ nm_input' = articles
    /\ nm_max_extra' = max_extra
    /\ nm_before' = nm_recorded_models
    /\ nm_returned' = IF nm_last = "reset" THEN {}
                      ELSE nm_returned \cup NmKeys(nm_output)
    /\ nm_last' = "filter"
    /\ nm_pc' = IF nm_pc = "new" THEN "called" ELSE "done"

\* reset_daily_record()
NmReset ==
    /\ nm_pc = "called"
    /\ nm_recorded_models' = {}
    /\ nm_last' = "reset"
    /\ nm_pc' = "reset"
    /\ UNCHANGED <<nm_input, nm_max_extra, nm_output, nm_before, nm_returned>>

(***************************************************************************)
(* FunGithubFilter.filter_fun_github_projects applied to a drawn list      *)
(***************************************************************************)
MaxFunBatch == 3        \* longest list handed to the filter
FunKinds == 7           \* kinds of article in such a list

\* 1: a GitHub project with one keyword and few stars; 2: one with four
\* keywords and many stars; 3: a Hacker News post whose url is on github.com;
\* 4: a GitHub project with a boring keyword; 5: a post from elsewhere;
\* 6: a GitHub project whose only fun word is "bongo"; 7: one with none
FunArticle(i) ==
    [CatBlank EXCEPT !.id = <<"fun", i>>,
                     !.url = <<"fun", i>>,
                     !.source = IF i \in {3, 5} THEN "hacker_news"
                                ELSE "github_trending_ai",
                     !.github_url = (i # 5),
                     !.score = 3,
                     !.fun_matches = CASE i = 1 -> 1 [] i = 2 -> 4
                                       [] i = 3 -> 2 [] i = 4 -> 3
                                       [] i = 5 -> 5 [] OTHER -> 0,
                     !.fun_special = IF i = 6 THEN "bongo" ELSE "",
                     !.boring_kw = (i = 4),
                     !.stars = CASE i = 2 -> 5000 [] i = 3 -> 500
                                 [] i = 6 -> 50 [] OTHER -> 5]

FunBatches ==
    UNION {[1..n -> {FunArticle(i) : i \in 1..FunKinds}] : n \in 0..MaxFunBatch}

FunIdle ==
    /\ fg_pc = "idle"
    /\ fg_input = <<>>
    /\ fg_output = <<>>

FunInit ==
    /\ fg_pc = "ready"
    /\ fg_input \in FunBatches
    /\ fg_output = <<>>

\* fun_github_articles = self.fun_github_filter.filter_fun_github_projects(..)
FunFilterCall ==
    /\ fg_pc = "ready"
    /\ fg_output' = FilterFunGithubProjects(fg_input)
    /\ fg_pc' = "done"
    /\ UNCHANGED fg_input

(***************************************************************************)
(* CategoryFilter.classify applied to a drawn list                         *)
(***************************************************************************)
MaxClsBatch == 3        \* longest list handed to classify
ClsKinds == 8           \* kinds of article in such a list

\* 1: category given, source of another category; 2: category not one of the
\* six, source_category given; 3: neither valid, source_id and source both in
\* the table; 4: source in the table; 5: nothing but academic keywords in the
\* text; 6: nothing at all; 7: source is None; 8: source is None, category
\* given
ClsArticle(i) ==
    [CatBlank EXCEPT !.id = <<"cls", i>>,
                     !.url = <<"cls", i>>,
                     !.category = CASE i = 1 -> CATEGORY_TOOLS
                                    [] i = 2 -> "news"
                                    [] i = 8 -> CATEGORY_MEDIA
                                    [] OTHER -> "",
                     !.source_category = CASE i = 2 -> CATEGORY_NEWSLETTER
                                           [] i = 3 -> "blog"
                                           [] OTHER -> "",
                     !.source_id = IF i = 3 THEN "hacker_news" ELSE "",
                     !.source = CASE i \in {1, 2, 3} -> "arxiv"
                                  [] i = 4 -> "openai_blog"
                                  [] i \in {5, 6} -> "unknown"
                                  [] OTHER -> "",
                     !.academic_kw = (i = 5),
                     !.malformed = IF i \in {7, 8} THEN "source" ELSE ""]

ClsBatches ==
    UNION {[1..n -> {ClsArticle(i) : i \in 1..ClsKinds}] : n \in 0..MaxClsBatch}

\* CategoryFilter.classify: the dictionary of the six buckets
ClassifyAll(articles) == [c \in CATEGORIES |-> Classify(articles, c)]

ClsIdle ==
    /\ cl_pc = "idle"
    /\ cl_input = <<>>
    /\ cl_buckets = [c \in CATEGORIES |-> <<>>]
    /\ cl_raised = FALSE

ClsInit ==
    /\ cl_pc = "ready"
    /\ cl_input \in ClsBatches
    /\ cl_buckets = [c \in CATEGORIES |-> <<>>]
    /\ cl_raised = FALSE

\* categorized = self.classify(articles)
ClsCall ==
    /\ cl_pc = "ready"
    /\ cl_raised' = ClassifyRaises(cl_input)
    /\ cl_buckets' = IF ClassifyRaises(cl_input) THEN cl_buckets
                     ELSE ClassifyAll(cl_input)
    /\ cl_pc' = "done"
    /\ UNCHANGED cl_input

(***************************************************************************)
(* SQLiteStorage.add (src/src/storage.py) called by the add_batch of two   *)
(* runs on one database.  An article is its url; a row is the url it was   *)
(* inserted with.  Each add is the query, then the insert with its commit. *)
(***************************************************************************)
MaxAddBatch == 2        \* longest list handed to add_batch
StoreRuns == {1, 2}
StoreUrls == {"u1", "u2"}

StoreBatches == UNION {[1..n -> StoreUrls] : n \in 0..MaxAddBatch}

\* session.query(Article).filter_by(url_hash=url_hash).first()
StoreQuery(rows, url) == \E i \in 1..Len(rows) : rows[i] = url

\* session.add(new_article); session.commit(): url_hash is unique, so the
\* insert of a second row with the url fails with IntegrityError, which add
\* rolls back and raises again
StoreCommit(rows, url) ==
    IF StoreQuery(rows, url) THEN [rows |-> rows, result |-> "raise"]
    ELSE [rows |-> Append(rows, url), result |-> "True"]

StoreIdle ==
    /\ st_rows = <<>>
    /\ st_initial = <<>>
    /\ st_pc = [p \in StoreRuns |-> "off"]
    /\ st_todo = [p \in StoreRuns |-> <<>>]
    /\ st_log = [p \in StoreRuns |-> <<>>]

\* two runs reach _save_history, each with the list of its report
StoreInit ==
    /\ st_rows \in {<<>>, <<"u1">>}
    /\ st_initial = st_rows
    /\ st_pc = [p \in StoreRuns |-> "idle"]
    /\ st_todo \in [StoreRuns -> StoreBatches]
    /\ st_log = [p \in StoreRuns |-> <<>>]

\* add_batch: the next self.add(article) begins
StoreAddBegin(p) ==
    /\ st_pc[p] = "idle"
    /\ st_todo[p] # <<>>
    /\ st_pc' = [st_pc EXCEPT ![p] = "query"]
    /\ UNCHANGED <<st_rows, st_initial, st_todo, st_log>>

\* add: existing = ...first(); if existing: return False
StoreAddQuery(p) ==
    /\ st_pc[p] = "query"
    /\ IF StoreQuery(st_rows, Head(st_todo[p]))
       THEN /\ st_log' = [st_log EXCEPT
                             ![p] = Append(@, <<Head(st_todo[p]), "False">>)]
            /\ st_todo' = [st_todo EXCEPT ![p] = Tail(@)]
            /\ st_pc' = [st_pc EXCEPT ![p] = "idle"]
       ELSE /\ st_pc' = [st_pc EXCEPT ![p] = "insert"]
            /\ UNCHANGED <<st_todo, st_log>>
    /\ UNCHANGED <<st_rows, st_initial>>

\* add: session.add(new_article); session.commit(); return True -- or the
\* except branch, after which add_batch is left by the exception
StoreAddCommit(p) ==
    /\ st_pc[p] = "insert"
    /\ LET done == StoreCommit(st_rows, Head(st_todo[p]))
       IN  /\ st_rows' = done.rows
           /\ st_log' = [st_log EXCEPT
                            ![p] = Append(@, <<Head(st_todo[p]), done.result>>)]
           /\ st_pc' = [st_pc EXCEPT
                           ![p] = IF done.result = "raise" THEN "raised"
                                  ELSE "idle"]
    /\ st_todo' = [st_todo EXCEPT ![p] = Tail(@)]
    /\ UNCHANGED st_initial

(***************************************************************************)
(* Specifications                                                          *)
(***************************************************************************)
\* TimeFilter: one filter_for_daily_output call on a drawn batch
InitTime == TimeInit /\ DedupIdle /\ CatIdle /\ HashIdle /\ ScoreIdle /\ CatErrIdle /\ RunIdle /\ SortIdle /\ NmIdle /\ FunIdle /\ ClsIdle /\ StoreIdle
NextTime == TimeFilterCall /\ UNCHANGED <<ddVars, cfVars, chVars, sfVars, ceVars, runVars, soVars, nmVars, fgVars, clVars, stVars>>
SpecTime == InitTime /\ [][NextTime]_vars

\* Deduplicator: deduplicate calls and resets in any order, over a working
\* store that nothing writes meanwhile
InitDedup == DedupInit /\ TimeIdle /\ CatIdle /\ HashIdle /\ ScoreIdle /\ CatErrIdle /\ RunIdle /\ SortIdle /\ NmIdle /\ FunIdle /\ ClsIdle /\ StoreIdle
NextDedup ==
    \/ (\E batch \in DedupBatches : DedupCall(batch, {}))
          /\ UNCHANGED <<tfVars, cfVars, chVars, sfVars, ceVars, runVars, soVars, nmVars, fgVars, clVars, stVars>>
    \/ DedupReset /\ UNCHANGED <<tfVars, cfVars, chVars, sfVars, ceVars, runVars, soVars, nmVars, fgVars, clVars, stVars>>
SpecDedup == InitDedup /\ [][NextDedup]_vars

\* CategoryFilter: filter_for_daily_output called on a drawn batch, and
\* again on the same batch by the same instance
InitCat == CatInit /\ TimeIdle /\ DedupIdle /\ HashIdle /\ ScoreIdle /\ CatErrIdle /\ RunIdle /\ SortIdle /\ NmIdle /\ FunIdle /\ ClsIdle /\ StoreIdle
NextCat == CatFilterCall /\ UNCHANGED <<tfVars, ddVars, chVars, sfVars, ceVars, runVars, soVars, nmVars, fgVars, clVars, stVars>>
SpecCat == InitCat /\ [][NextCat]_vars

\* The content hash functions on two drawn (title, description) pairs
InitHash == HashInit /\ TimeIdle /\ DedupIdle /\ CatIdle /\ ScoreIdle /\ CatErrIdle /\ RunIdle /\ SortIdle /\ NmIdle /\ FunIdle /\ ClsIdle /\ StoreIdle
NextHash == HashCall /\ UNCHANGED <<tfVars, ddVars, cfVars, sfVars, ceVars, runVars, soVars, nmVars, fgVars, clVars, stVars>>
SpecHash == InitHash /\ [][NextHash]_vars

\* Deduplicator whose storage lookups may throw: a deduplicate call in which
\* the lookups made for a drawn set of positions raise, made on a new
\* Deduplicator or after one call that went through and filled the cache
NextDedupErr ==
    (\E batch \in DedupBatches : \E raising \in SUBSET (1..Len(batch)) :
        /\ dd_pc = "new" \/ (dd_raising = {} /\ raising # {})
        /\ DedupCall(batch, raising))
    /\ UNCHANGED <<tfVars, cfVars, chVars, sfVars, ceVars, runVars, soVars, nmVars, fgVars, clVars, stVars>>
SpecDedupErr == InitDedup /\ [][NextDedupErr]_vars

\* ThresholdFilter: one filter call on a drawn batch
InitScore == ScoreInit /\ TimeIdle /\ DedupIdle /\ CatIdle /\ HashIdle /\ CatErrIdle /\ RunIdle /\ SortIdle /\ NmIdle /\ FunIdle /\ ClsIdle /\ StoreIdle
NextScore == ScoreFilterCall /\ UNCHANGED <<tfVars, ddVars, cfVars, chVars, ceVars, runVars, soVars, nmVars, fgVars, clVars, stVars>>
SpecScore == InitScore /\ [][NextScore]_vars

\* CategoryFilter given a batch with one malformed article
InitCatErr ==
    /\ CatErrInit /\ TimeIdle /\ DedupIdle /\ CatIdle /\ HashIdle /\ ScoreIdle
    /\ RunIdle /\ SortIdle /\ NmIdle /\ FunIdle /\ ClsIdle /\ StoreIdle
NextCatErr == CatErrCall /\ UNCHANGED <<tfVars, ddVars, cfVars, chVars, sfVars, runVars, soVars, nmVars, fgVars, clVars, stVars>>
SpecCatErr == InitCatErr /\ [][NextCatErr]_vars

\* AINewsAgent.run, step by step, run after run
InitRun ==
    /\ RunInit /\ TimeIdle /\ DedupIdle /\ CatIdle /\ HashIdle /\ ScoreIdle
    /\ CatErrIdle /\ SortIdle /\ NmIdle /\ FunIdle /\ ClsIdle /\ StoreIdle
NextRun ==
    /\ \/ RunCollect
       \/ RunFilter
       \/ RunDeduplicate
       \/ RunTimeFilter
       \/ RunSummarizeAndFormat
       \/ RunSendReport
       \/ RunSaveHistory
       \/ RunRaise
       \/ RunCategoryFilter
       \/ RunAgain
    /\ UNCHANGED <<tfVars, ddVars, cfVars, chVars, sfVars, ceVars, soVars, nmVars, fgVars, clVars, stVars>>
SpecRun == InitRun /\ [][NextRun]_vars

\* One recency-and-score sort of a drawn pool
InitSort ==
    /\ SortInit /\ TimeIdle /\ DedupIdle /\ CatIdle /\ HashIdle /\ ScoreIdle
    /\ CatErrIdle /\ RunIdle /\ NmIdle /\ FunIdle /\ ClsIdle /\ StoreIdle
NextSort ==
    SortCall /\ UNCHANGED <<tfVars, ddVars, cfVars, chVars, sfVars, ceVars, runVars, nmVars, fgVars, clVars, stVars>>
SpecSort == InitSort /\ [][NextSort]_vars

\* One NewModelReleaseFilter: a call, possibly a reset, another call
InitModel ==
    /\ NmInit /\ TimeIdle /\ DedupIdle /\ CatIdle /\ HashIdle /\ ScoreIdle
    /\ CatErrIdle /\ RunIdle /\ SortIdle /\ FunIdle /\ ClsIdle /\ StoreIdle
NextModel ==
    /\ \/ \E articles \in NmBatches, max_extra \in 0..MaxNmExtra :
              NmFilterCall(articles, max_extra)
       \/ NmReset
    /\ UNCHANGED <<tfVars, ddVars, cfVars, chVars, sfVars, ceVars, runVars, soVars, fgVars, clVars, stVars>>
SpecModel == InitModel /\ [][NextModel]_vars

\* CategoryFilter in dual-channel mode on a drawn batch
InitDual ==
    /\ DualInit /\ TimeIdle /\ DedupIdle /\ HashIdle /\ ScoreIdle /\ CatErrIdle
    /\ RunIdle /\ SortIdle /\ NmIdle /\ FunIdle /\ ClsIdle /\ StoreIdle
NextDual ==
    CatFilterCall /\ UNCHANGED <<tfVars, ddVars, chVars, sfVars, ceVars, runVars, soVars, nmVars, fgVars, clVars, stVars>>
SpecDual == InitDual /\ [][NextDual]_vars

\* One filter_fun_github_projects call on a drawn list
InitFun ==
    /\ FunInit /\ TimeIdle /\ DedupIdle /\ CatIdle /\ HashIdle /\ ScoreIdle
    /\ CatErrIdle /\ RunIdle /\ SortIdle /\ NmIdle /\ ClsIdle /\ StoreIdle
NextFun ==
    FunFilterCall /\ UNCHANGED <<tfVars, ddVars, cfVars, chVars, sfVars, ceVars, runVars, soVars, nmVars, clVars, stVars>>
SpecFun == InitFun /\ [][NextFun]_vars

\* One classify call on a drawn list
InitClassify ==
    /\ ClsInit /\ TimeIdle /\ DedupIdle /\ CatIdle /\ HashIdle /\ ScoreIdle
    /\ CatErrIdle /\ RunIdle /\ SortIdle /\ NmIdle /\ FunIdle /\ StoreIdle
NextClassify ==
    ClsCall /\ UNCHANGED <<tfVars, ddVars, cfVars, chVars, sfVars, ceVars, runVars, soVars, nmVars, fgVars, stVars>>
SpecClassify == InitClassify /\ [][NextClassify]_vars

\* The add_batch calls of two runs, interleaved at the database accesses
InitStore ==
    /\ StoreInit /\ TimeIdle /\ DedupIdle /\ CatIdle /\ HashIdle /\ ScoreIdle
    /\ CatErrIdle /\ RunIdle /\ SortIdle /\ NmIdle /\ FunIdle /\ ClsIdle
NextStore ==
    /\ \E p \in StoreRuns :
          StoreAddBegin(p) \/ StoreAddQuery(p) \/ StoreAddCommit(p)
    /\ UNCHANGED <<tfVars, ddVars, cfVars, chVars, sfVars, ceVars, runVars, soVars, nmVars, fgVars, clVars>>
SpecStore == InitStore /\ [][NextStore]_vars

(***************************************************************************)
(* TimeFilter: claims                                                      *)
(***************************************************************************)
TfRecentIn == Cardinality({i \in 1..Len(tf_articles) :
                              TimeGroup(tf_articles[i]) = GROUP_RECENT})
TfHistoricalIn == Len(tf_articles) - TfRecentIn
TfRecentOut == Cardinality({i \in 1..Len(tf_result) :
                               tf_result[i].time_group = GROUP_RECENT})
TfHistoricalOut == Len(tf_result) - TfRecentOut
TfOutIds == {tf_result[i].id : i \in 1..Len(tf_result)}

\* C3 (temporal ratio): after a call, if the batch holds at least N*R_target
\* recent articles the share of recent articles in the output is at least
\* R_target; if it holds fewer than that but at least N*R_min, the share is at
\* least R_min.
C3_TemporalRatio ==
    tf_pc = "done" =>
        /\ (TfRecentIn * 100 >= tf_count * tf_target_pct
               => TfRecentOut * 100 >= tf_target_pct * Len(tf_result))
        /\ ((TfRecentIn * 100 < tf_count * tf_target_pct
               /\ TfRecentIn * 100 >= tf_count * tf_min_pct)
               => TfRecentOut * 100 >= tf_min_pct * Len(tf_result))

\* C8 (balancer output size): after a call the output holds exactly
\* min(N, recent + historical) articles.
C8_OutputSize ==
    tf_pc = "done" => Len(tf_result) = Min(tf_count, Len(tf_articles))

C27_BalancerPurity ==
    tf_pc = "done" =>
        /\ tf_articles = tf_given
        /\ \A i \in 1..Len(tf_result) :
               /\ DOMAIN tf_result[i] = DOMAIN tf_given[1] \cup {"time_group"}
               /\ tf_result[i].time_group \in {GROUP_RECENT, GROUP_HISTORICAL}
               /\ \E j \in 1..Len(tf_given) :
                      \A x \in DOMAIN tf_given[j] : tf_result[i][x] = tf_given[j][x]
        /\ \A i, j \in 1..Len(tf_result) :
               i # j => tf_result[i].id # tf_result[j].id

\* C27 witness: a call that returned recent and historical articles and left
\* out articles of both groups.
C27_Witness ==
    /\ tf_pc = "done"
    /\ \E i, j \in 1..Len(tf_result) :
          /\ tf_result[i].time_group = GROUP_RECENT
          /\ tf_result[j].time_group = GROUP_HISTORICAL
    /\ \E i, j \in 1..Len(tf_given) :
          /\ TimeGroup(tf_given[i]) = GROUP_RECENT
          /\ TimeGroup(tf_given[j]) = GROUP_HISTORICAL
          /\ \A k \in 1..Len(tf_result) : tf_result[k].id \notin {i, j}

(***************************************************************************)
(* Deduplicator: claims                                                    *)
(***************************************************************************)
\* C2 (dedup idempotence): when deduplicate is called again on the input of
\* the call before it, the store being the same, it returns the same set of
\* items as that call did.
C2_DedupIdempotence ==
    dd_repeat => Range(dd_output) = Range(dd_prev_output)

\* The first position of dd_input that carries url u.
DdFirstWithUrl(u) ==
    CHOOSE i \in 1..Len(dd_input) :
        /\ dd_input[i].url = u
        /\ \A j \in 1..(i - 1) : dd_input[j].url # u

DdFreshOutput(batch) == Deduplicate(batch, {}, {}, dd_history, DedupCfg, {}).unique

\* C17 as stated: after reset both seen-sets are empty; the deduplicate call
\* that follows a reset returns what a freshly constructed Deduplicator
\* returns for the same input and history; and so does every later
\* deduplicate call, whatever the calls before it have seen.
C17_Reset ==
    /\ [](dd_last = "reset" => (dd_seen_urls = {} /\ dd_seen_content_hashes = {}))
    /\ [][dd_last' = "deduplicate" => dd_output' = DdFreshOutput(dd_input')]_vars

(***************************************************************************)
(* CategoryFilter: claims                                                  *)
(***************************************************************************)
\* filter_for_daily_output has returned
CfCalled == cf_pc = "ready" /\ cf_calls > 0

\* The articles of the batch that the base selection left unclaimed
CfRemainder == NotSelected(cf_input, UrlsOf(cf_base))

\* The extras: what the returned list holds behind the base selection
CfExtras == SubSeq(cf_output, Len(cf_base) + 1, Len(cf_output))

CfCount(s, Test(_)) == Cardinality({i \in 1..Len(s) : Test(s[i])})

\* C1: for every input batch, also one in which several articles carry the
\* same url, the urls of the returned list (base and extras together) are
\* pairwise distinct.
C1_DistinctUrls ==
    CfCalled =>
        \A i, j \in 1..Len(cf_output) :
            i # j => cf_output[i].url # cf_output[j].url

\* C4: for every input batch, the base part of the output holds at most
\* academic_max_count articles classified as academic.
C4_AcademicQuota ==
    CfCalled =>
        CfCount(cf_base, LAMBDA a : ExtractCategory(a) = CATEGORY_ACADEMIC)
            <= academic_max_count

\* C5: for every input batch, the base part of the output holds at most
\* max_target_count articles, and exactly that many whenever the batch holds
\* at least that many articles with distinct urls.
C5_TotalCap ==
    CfCalled =>
        /\ Len(cf_base) <= max_target_count
        /\ (Cardinality(UrlsOf(cf_input) \ {NoUrl}) >= max_target_count
                => Len(cf_base) = max_target_count)

\* C6: when every pool of the batch is exhausted (each article of the batch
\* is claimed) and the base output holds k < max_target_count articles, the
\* allocator has queried the store with get_unsent(limit = target - k).
C6_BacklogBorrow ==
    (/\ CfCalled
     /\ CfRemainder = <<>>
     /\ Len(cf_base) < max_target_count)
        => \E q \in 1..Len(cf_get_unsent) :
               cf_get_unsent[q] = max_target_count - Len(cf_base)

\* C7 as stated: whenever the base output is full and the unclaimed remainder
\* holds 3 qualifying model-release articles, the returned list is exactly 3
\* longer than the base output and none of the added articles has a url of
\* the base output.
C7_OverflowExemption ==
    (/\ CfCalled
     /\ Len(cf_base) >= max_target_count
     /\ CfCount(CfRemainder, IsNewModelRelease) = 3)
        => /\ Len(cf_output) = Len(cf_base) + 3
           /\ UrlsOf(CfExtras) \cap UrlsOf(cf_base) = {}

\* The qualifying articles of the remainder lie inside the time window, name
\* pairwise different (company, model_name) keys, and none of these keys was
\* recorded when the call began
CfReleasesFresh ==
    LET found == SelectSeq(CfRemainder, IsNewModelRelease)
    IN  /\ \A i \in 1..Len(found) :
               /\ \/ found[i].published_at = NoneT
                  \/ found[i].published_at >= CatNowHour - new_model_hours
               /\ ModelKey(found[i]) \notin cf_recorded_before
        /\ \A i, j \in 1..Len(found) :
               i # j => ModelKey(found[i]) # ModelKey(found[j])

\* C7, amended: whenever the base output is full, the unclaimed remainder
\* holds exactly 3 qualifying model-release articles that are inside the time
\* window and have pairwise different, not yet recorded keys, and no article
\* of the remainder qualifies as a fun GitHub project, the returned list is
\* the base output followed by these 3 articles tagged as new_model_release
\* extras, and none of them has a url of the base output.
C7_OverflowExemptionFresh ==
    (/\ CfCalled
     /\ Len(cf_base) >= max_target_count
     /\ CfCount(CfRemainder, IsNewModelRelease) = 3
     /\ CfReleasesFresh
     /\ CfCount(CfRemainder,
                LAMBDA a : IsGithubProject(a) /\ IsFunOrProductive(a)) = 0)
        => /\ Len(cf_output) = Len(cf_base) + 3
           /\ CfExtras = TagExtra(SelectSeq(CfRemainder, IsNewModelRelease),
                                  "new_model_release")
           /\ UrlsOf(CfExtras) \cap UrlsOf(cf_base) = {}

\* C7 witness: a first call in single-channel mode whose base output holds 16
\* articles, one of them an announcement of the OpenAI blog, and whose
\* remainder is 3 announcements of different models: 19 articles come back
C7_Witness ==
    /\ CfCalled
    /\ cf_calls = 1
    /\ ~cf_dual_channel_mode
    /\ Len(cf_base) = FILL_CEILING
    /\ CfCount(cf_base, IsNewModelRelease) = 1
    /\ Len(CfRemainder) = 3
    /\ CfCount(CfRemainder, IsNewModelRelease) = 3
    /\ CfReleasesFresh
    /\ Len(cf_output) = FILL_CEILING + 3
    /\ \A i \in 1..3 : CfExtras[i].extra_type = "new_model_release"
\* The slots of the returned list that hold the article x of the batch or a
\* copy of it
CfSlotsOf(x) == {k \in 1..Len(cf_output) : cf_output[k].id = x.id}

\* the extras of one detector
CfExtrasOfType(extra_type) ==
    SelectSeq(CfExtras, LAMBDA a : a.extra_type = extra_type)

\* C15: in the returned list every article of the batch occupies at most one
\* slot; no url is both the url of a base article and of an extra, and no
\* url is the url of an extra of both detectors.
C15_NoDoubleClaim ==
    CfCalled =>
        /\ \A i \in 1..Len(cf_input) :
               Cardinality(CfSlotsOf(cf_input[i])) <= 1
        /\ UrlsOf(cf_base) \cap UrlsOf(CfExtras) = {}
        /\ UrlsOf(CfExtrasOfType("new_model_release"))
               \cap UrlsOf(CfExtrasOfType("fun_github_project")) = {}

\* C16: the returned list is the base selection of the allocator, unchanged
\* and in its order, followed by the model-release extras, followed by the
\* fun GitHub extras; every extra has is_extra = TRUE and one of the two
\* extra types, and no base article is tagged is_extra.
C16_ExtrasAppended ==
    CfCalled =>
        LET n == Len(cf_base)
        IN  /\ cf_base = (IF cf_dual_channel_mode THEN DualChannelBase(cf_input)
                          ELSE SingleChannelBase(cf_input))
            /\ Len(cf_output) >= n
            /\ SubSeq(cf_output, 1, n) = cf_base
            /\ \A i \in 1..n : ~cf_output[i].is_extra
            /\ CfExtras = CfExtrasOfType("new_model_release")
                              \o CfExtrasOfType("fun_github_project")
            /\ \A i \in 1..Len(CfExtras) :
                   /\ CfExtras[i].is_extra
                   /\ CfExtras[i].extra_type
                          \in {"new_model_release", "fun_github_project"}

\* C16 witness: a returned list that holds base articles, then a
\* model-release extra, then a fun GitHub extra
C16_Witness ==
    /\ CfCalled
    /\ Len(cf_base) > 0
    /\ Len(CfExtrasOfType("new_model_release")) > 0
    /\ Len(CfExtrasOfType("fun_github_project")) > 0
    /\ cf_output[Len(cf_output)].is_extra

(***************************************************************************)
(* Content hash: claims                                                    *)
(***************************************************************************)
\* The words of a text: its maximal runs of characters that are no
\* whitespace, in order
RECURSIVE WordsFrom(_, _, _)
WordsFrom(s, word, acc) ==
    IF s = <<>> THEN (IF word = <<>> THEN acc ELSE Append(acc, word))
    ELSE IF IsSpace(Head(s))
         THEN WordsFrom(Tail(s), <<>>,
                        IF word = <<>> THEN acc ELSE Append(acc, word))
    ELSE WordsFrom(Tail(s), Append(word, Head(s)), acc)

\* Two texts differ only in letter case and in the amount of leading,
\* trailing or internal whitespace: they have the same words up to case
SameUpToCaseAndSpace(s, t) ==
    WordsFrom(Lower(s), <<>>, <<>>) = WordsFrom(Lower(t), <<>>, <<>>)

ChPairsAlike ==
    /\ SameUpToCaseAndSpace(ch_first.title, ch_second.title)
    /\ SameUpToCaseAndSpace(ch_first.description, ch_second.description)

\* C11: two (title, description) pairs that differ only in letter case and in
\* the amount of leading, trailing or internal whitespace get the same digest
\* from _compute_content_hash, and with sha256 the store's
\* compute_content_hash gives that digest as well.
C11_HashStability ==
    (ch_pc = "done" /\ ChPairsAlike)
        => /\ ch_digests.first = ch_digests.second
           /\ ch_algorithm = "sha256"
                  => /\ ch_digests.stored_first = ch_digests.first
                     /\ ch_digests.stored_second = ch_digests.first
(***************************************************************************)
(* ThresholdFilter: claims                                                 *)
(***************************************************************************)
\* C12: every article of the list that filter returns carries a score that
\* the filter assigned, with 0 <= score <= 1, whatever the weight map and the
\* fields of the articles are.
C12_ScoreRange ==
    (sf_pc = "done" /\ ~sf_raised)
        => \A i \in 1..Len(sf_output) :
               /\ sf_output[i].scored
               /\ sf_output[i].score >= 0
               /\ sf_output[i].score <= 1000

\* The positions of sf_input at which the loop body took the except branch
SfFailed ==
    {i \in 1..Len(sf_input) :
        ProcessArticle(sf_input[i], sf_weights, sf_min_stars).failed}

\* The articles at the given positions of sf_input, as a bag
SfBagAt(positions, After(_)) ==
    [a \in {After(sf_input[i]) : i \in positions} |->
        Cardinality({i \in positions : After(sf_input[i]) = a})]

SfOutputBag ==
    [a \in Range(sf_output) |->
        Cardinality({i \in 1..Len(sf_output) : sf_output[i] = a})]

\* C14: filter never raises; an article whose scoring or threshold check
\* raises is in the output, and the other articles are processed as usual
\* (scored, and in the output exactly when they meet the thresholds).
C14_BatchSurvival ==
    sf_pc = "done"
        => /\ ~sf_raised
           /\ SfOutputBag =
                  SfBagAt({i \in 1..Len(sf_input) :
                              ProcessArticle(sf_input[i], sf_weights,
                                             sf_min_stars).kept},
                          LAMBDA a : ProcessArticle(a, sf_weights,
                                                    sf_min_stars).article)
           /\ \A i \in SfFailed :
                  ProcessArticle(sf_input[i], sf_weights, sf_min_stars).article
                      \in Range(sf_output)
(***************************************************************************)
(* Deduplicator with failing lookups: claims                               *)
(***************************************************************************)
\* The subsequence of s at its positions from i on that are not in skip
RECURSIVE DdSelect(_, _, _)
DdSelect(s, i, skip) ==
    IF i > Len(s) THEN <<>>
    ELSE (IF i \in skip THEN <<>> ELSE <<s[i]>>) \o DdSelect(s, i + 1, skip)

\* C13: in every deduplicate call, an article whose duplicate check raised is
\* in the output (deduplicate returns its list, it does not raise), and the
\* other articles are checked as they are without it: what is returned for
\* them is what deduplicate returns for the batch without the failing
\* articles, starting from the same seen-sets and history.
C13_KeepOnError ==
    [][dd_pc' = "called" =>
          LET batch == dd_input'
              kept_failed == {k \in 1..Len(dd_kept') : dd_kept'[k] \in dd_failed'}
          IN  /\ dd_output' = [k \in 1..Len(dd_kept') |-> batch[dd_kept'[k]]]
              /\ \A i \in dd_failed' : \E k \in 1..Len(dd_kept') : dd_kept'[k] = i
              /\ DdSelect(dd_output', 1, kept_failed)
                     = Deduplicate(DdSelect(batch, 1, dd_failed'), dd_seen_urls,
                                   dd_seen_content_hashes, dd_history, DedupCfg,
                                   {}).unique]_vars

\* C13 witness: a batch of two in which the check of one article raised and
\* the other article was found to be a duplicate and dropped
C13_Witness ==
    /\ dd_pc = "called"
    /\ Len(dd_input) = 2
    /\ Cardinality(dd_failed) = 1
    /\ Len(dd_output) = 1
    /\ dd_kept[1] \in dd_failed
(***************************************************************************)
(* CategoryFilter given a malformed article: claims                        *)
(***************************************************************************)
\* The well-formed articles of the batch
CeWellFormed == SelectSeq(ce_input, LAMBDA a : a.malformed = "")

\* C18: when one article of the batch is malformed, filter_for_daily_output
\* does not raise, and it returns the selection computed from the remaining
\* articles, the malformed one being skipped.
C18_ErrorIsolation ==
    ce_pc = "done"
        => /\ ~ce_raised
           /\ ce_output = CategoryFilterForDailyOutput(CeWellFormed,
                                                       ce_dual_channel_mode,
                                                       {}).final
C28_NoRepeatAcrossRuns ==
    \A r1, r2 \in run_completed :
        r1 < r2 => run_reports[r1] \cap run_reports[r2] = {}

(***************************************************************************)
(* The recency-and-score order: claims                                     *)
(***************************************************************************)
\* C20: the sorted list has the most recent published_at first (articles
\* without one last); of two articles with equal published_at the one with
\* the higher score comes first; so, the list being sliced to its first k
\* articles, no left-out article has the timestamp of a selected one and a
\* strictly higher score.
C20_RecencyThenScore ==
    so_pc = "done" =>
        /\ \A i, j \in 1..Len(so_sorted) :
               i < j =>
                   /\ Timestamp(so_sorted[i].published_at)
                          >= Timestamp(so_sorted[j].published_at)
                   /\ (so_sorted[i].published_at = so_sorted[j].published_at
                          => so_sorted[i].score >= so_sorted[j].score)
        /\ \A i \in 1..Min(so_k, Len(so_sorted)) :
               \A j \in (so_k + 1)..Len(so_sorted) :
                   ~ /\ so_sorted[j].published_at = so_sorted[i].published_at
                     /\ so_sorted[j].score > so_sorted[i].score

(***************************************************************************)
(* Dual-channel mode: claims                                               *)
(***************************************************************************)
\* the base articles of the tools channel, and those behind them
CfToolsChannel == Classify(cf_base, CATEGORY_TOOLS)

CfSecondChannel == SubSeq(cf_base, Len(CfToolsChannel) + 1, Len(cf_base))

\* C23: in dual-channel mode the base list is the tools channel followed by
\* the academic+media channel: at most tools_channel_count tools articles in
\* non-increasing score order, then at most academic_media_channel_count
\* articles, every academic one before every media one, and no article of
\* another category.
C23_DualChannelCaps ==
    (CfCalled /\ cf_dual_channel_mode) =>
        LET k == Len(CfToolsChannel)
        IN  /\ k <= tools_channel_count
            /\ \A i \in 1..k : ExtractCategory(cf_base[i]) = CATEGORY_TOOLS
            /\ \A i \in 1..(k - 1) : cf_base[i].score >= cf_base[i + 1].score
            /\ Len(CfSecondChannel) <= academic_media_channel_count
            /\ \A i \in 1..Len(CfSecondChannel) :
                   ExtractCategory(CfSecondChannel[i])
                       \in {CATEGORY_ACADEMIC, CATEGORY_MEDIA}
            /\ \A i, j \in 1..Len(CfSecondChannel) :
                   (/\ ExtractCategory(CfSecondChannel[i]) = CATEGORY_MEDIA
                    /\ ExtractCategory(CfSecondChannel[j]) = CATEGORY_ACADEMIC)
                   => j < i

\* C23 witness: a batch with more tools articles than the tools channel takes
\* and more academic and media articles than the second channel takes, a
\* lab-blog article among the rest; both channels come out full.
C23_Witness ==
    /\ CfCalled /\ cf_dual_channel_mode
    /\ Len(Classify(cf_input, CATEGORY_TOOLS)) > tools_channel_count
    /\ Len(Classify(cf_input, CATEGORY_LAB_BLOG)) > 0
    /\ Len(CfToolsChannel) = tools_channel_count
    /\ Len(CfSecondChannel) = academic_media_channel_count
    /\ Len(Classify(cf_base, CATEGORY_ACADEMIC)) > 0
    /\ Len(Classify(cf_input, CATEGORY_MEDIA))
           > Len(Classify(cf_base, CATEGORY_MEDIA))

\* the urls of the academic and media articles of the batch
CfSecondChannelCandidates ==
    UrlsOf(Classify(cf_input, CATEGORY_ACADEMIC))
        \cup UrlsOf(Classify(cf_input, CATEGORY_MEDIA))

\* C24: in dual-channel mode the academic+media channel holds exactly
\* min(academic_media_channel_count, number of distinct urls of the academic
\* and media articles of the batch) articles: it is short of its count only
\* when every academic and media candidate has been selected.
C24_DualChannelFill ==
    (CfCalled /\ cf_dual_channel_mode) =>
        /\ Len(CfSecondChannel)
               = Min(academic_media_channel_count,
                     Cardinality(CfSecondChannelCandidates))
        /\ Len(CfSecondChannel) < academic_media_channel_count
               => CfSecondChannelCandidates \subseteq UrlsOf(cf_base)

(***************************************************************************)
(* NewModelReleaseFilter: claims                                           *)
(***************************************************************************)
\* C21: filter_new_model_releases returns at most max_extra articles, for
\* every max_extra >= 0 and every list it is given.
C21_ModelReleaseCap ==
    nm_last = "filter" => Len(nm_output) <= nm_max_extra

\* C22: the articles one filter_new_model_releases call returns have
\* pairwise different (company, model_name) keys, and none of them has a
\* published_at older than now minus the configured hours.
C22_DistinctKeysInWindow ==
    nm_last = "filter" =>
        /\ \A i, j \in DOMAIN nm_output :
               i # j => ModelKey(nm_output[i]) # ModelKey(nm_output[j])
        /\ \A i \in DOMAIN nm_output :
               \/ nm_output[i].published_at = NoneT
               \/ nm_output[i].published_at >= CatNowHour - new_model_hours

\* C29: a key that filter_new_model_releases returned is returned by no
\* later call of the same instance before reset_daily_record; between resets
\* the record only grows; reset_daily_record empties it, which makes every
\* key eligible again.
C29_RecordPersists ==
    /\ nm_last = "filter" =>
           /\ NmKeys(nm_output) \cap nm_returned = {}
           /\ nm_before \subseteq nm_recorded_models
           /\ nm_returned \cup NmKeys(nm_output) \subseteq nm_recorded_models
    /\ nm_last = "reset" => nm_recorded_models = {}

\* C29 witness: a second call without a reset in between is handed a fresh
\* announcement whose key the first call returned, and does not return it,
\* while it returns another announcement.
C29_Witness ==
    /\ nm_last = "filter"
    /\ nm_returned # {}
    /\ nm_output # <<>>
    /\ \E i \in DOMAIN nm_input :
          /\ IsNewModelRelease(nm_input[i])
          /\ nm_input[i].published_at >= CatNowHour - new_model_hours
          /\ ModelKey(nm_input[i]) \in nm_returned
          /\ \A j \in DOMAIN nm_output : nm_output[j].id # nm_input[i].id

(***************************************************************************)
(* FunGithubFilter: claims                                                 *)
(***************************************************************************)
\* the positions of fg_input that qualify
FgQualifying ==
    {i \in DOMAIN fg_input :
        IsGithubProject(fg_input[i]) /\ IsFunOrProductive(fg_input[i])}

\* C25: filter_fun_github_projects returns at most 2 articles; each is the
\* rescored copy of an article of the list that comes from GitHub, holds a
\* productivity or fun word (the special fun words included) and no boring
\* keyword; no qualifying article left out has a higher heuristic score than
\* a returned one; no score exceeds 1.0 (10 tenths).
C25_FunTopTwo ==
    fg_pc = "done" =>
        /\ Len(fg_output) <= 2
        /\ \A k \in DOMAIN fg_output : fg_output[k].score <= 10
        /\ \E f \in [DOMAIN fg_output -> FgQualifying] :
              /\ \A k, l \in DOMAIN fg_output : k # l => f[k] # f[l]
              /\ \A k \in DOMAIN fg_output :
                     /\ fg_output[k] = FunCopy(fg_input[f[k]])
                     /\ ~fg_input[f[k]].boring_kw
                     /\ \/ fg_input[f[k]].source = "github_trending_ai"
                        \/ fg_input[f[k]].github_url
                     /\ \/ fg_input[f[k]].fun_matches > 0
                        \/ fg_input[f[k]].fun_special # ""
              /\ \A q \in FgQualifying \ {f[k] : k \in DOMAIN fg_output} :
                     /\ Len(fg_output) = 2
                     /\ \A k \in DOMAIN fg_output :
                            CalculateFunScore(fg_input[q]) <= fg_output[k].score

\* C25 witness: three qualifying articles with three different scores, the
\* lowest first in the list; the two others are returned, one with the score
\* capped at 1.0.
C25_Witness ==
    /\ fg_pc = "done"
    /\ Cardinality(FgQualifying) = 3
    /\ Len(fg_output) = 2
    /\ fg_output[1].score = 10
    /\ fg_output[2].score < 10
    /\ CalculateFunScore(fg_input[1]) < fg_output[2].score

(***************************************************************************)
(* CategoryFilter.classify: claims                                         *)
(***************************************************************************)
\* the category the four-step priority gives: category, source_category, the
\* source table by source_id and source, the academic keywords of the text,
\* media
ClsFourStepCategory(article) ==
    IF article.category \in CATEGORIES THEN article.category
    ELSE IF article.source_category \in CATEGORIES THEN article.source_category
    ELSE IF SourceCategoryMapping(article.source_id) # ""
         THEN SourceCategoryMapping(article.source_id)
    ELSE IF SourceCategoryMapping(article.source) # ""
         THEN SourceCategoryMapping(article.source)
    ELSE IF article.academic_kw THEN CATEGORY_ACADEMIC
    ELSE CATEGORY_MEDIA

RECURSIVE ClsTotalSize(_)
ClsTotalSize(cats) ==
    IF cats = {} THEN 0
    ELSE LET c == CHOOSE x \in cats : TRUE
         IN  Len(cl_buckets[c]) + ClsTotalSize(cats \ {c})

\* C26: classify returns six buckets whose sizes sum to the length of the
\* list, and the bucket of a category holds, in list order, the articles to
\* which the four-step priority gives this category.
C26_Classification ==
    cl_pc = "done" =>
        /\ ~cl_raised
        /\ ClsTotalSize(CATEGORIES) = Len(cl_input)
        /\ \A c \in CATEGORIES :
               cl_buckets[c]
                   = SelectSeq(cl_input, LAMBDA a : ClsFourStepCategory(a) = c)

(***************************************************************************)
(* SQLiteStorage.add under interleaving: claims                            *)
(***************************************************************************)
\* the adds of url that returned result
StAdds(url, result) ==
    {<<p, i>> \in StoreRuns \X (1..MaxAddBatch) :
        i <= Len(st_log[p]) /\ st_log[p][i] = <<url, result>>}

\* C30: whatever the interleaving of the adds of two runs, the table never
\* holds two rows with one url; no add raises; of the adds of a url exactly
\* one returns True when the url was not stored at the start, none when it
\* was; and an add that finds the url stored returns False and leaves the
\* table as it is.
C30_UniquenessUnderInterleaving ==
    /\ [](/\ \A i, j \in 1..Len(st_rows) : i # j => st_rows[i] # st_rows[j]
          /\ \A url \in StoreUrls :
                 /\ StAdds(url, "raise") = {}
                 /\ Cardinality(StAdds(url, "True")) <= 1
                 /\ StoreQuery(st_initial, url) => StAdds(url, "True") = {}
                 /\ (StAdds(url, "False") # {} /\ ~StoreQuery(st_initial, url))
                        => Cardinality(StAdds(url, "True")) = 1)
    /\ [][\A p \in StoreRuns :
            (/\ st_pc[p] = "query"
             /\ st_pc'[p] # "query"
             /\ StoreQuery(st_rows, Head(st_todo[p])))
            => /\ st_rows' = st_rows
               /\ st_log'[p] = Append(st_log[p], <<Head(st_todo[p]), "False">>)]_vars

====
